---- MODULE Spec2Model ----
(***************************************************************************)
(* The chat server of GoChatServer: server/server.go (dispatcher and       *)
(* credential store), server/client.go (per-connection session: Handle,    *)
(* readPump, writePump, directSend, handleCommand), the current room.go    *)
(* and user.go (src/unnamed/part_002), and server/file.go (the transfer    *)
(* registry: a FileTransfer object is an index of xfer, activeTransfers    *)
(* maps the key string to it).                                             *)
(*                                                                         *)
(* Every goroutine is a process with a program counter:                    *)
(*   hpc[c]  Client.Handle      rpc[c]  Client.readPump                    *)
(*   wpc[c]  Client.writePump   disp    Server.handleMessages              *)
(* A critical section under one mutex is one step.  The unbuffered         *)
(* channels register / unregister / broadcast are a rendezvous: the        *)
(* sender's step hands the value to the dispatcher (disp), which applies   *)
(* it in a later step of its own.                                          *)
(***************************************************************************)
EXTENDS Integers, Sequences, FiniteSets, TLC

\* ------------------------------------------------------------------ bounds
MaxClients == 3      \* sessions of the model
MaxLive == 2         \* sessions that connect under Spec
MaxBacklog == 0      \* see Paced
MaxSends == 2        \* calls of InitiateFileTransfer
MaxSize == 2         \* largest file size a size token can denote

Clients == 1..MaxClients
Live == 1..MaxLive
Usernames == {"alice", "bob"}
Passwords == {"p1", "p2"}
RoomNames == {"general", "lobby"}
FileNames == {"f", "g"}
FileSizes == {1, 2}
Chunks == {<<7>>, <<7, 8>>}

\* ------------------------------------------------------- program constants
QueueCap == 10

VARIABLES
    clients,        \* Server.clients: the session set
    rooms,          \* keys of Server.rooms
    members,        \* members[r]: Room.clients of room r
    users,          \* Server.users: username -> PasswordHash
    send,           \* send[c]: contents of the buffered channel Client.send
    closes,         \* closes[c]: number of close(c.send) executed
    username,       \* Client.username
    authenticated,  \* Client.authenticated
    currentRoom,    \* Client.currentRoom
    hpc,            \* position of Client.Handle
    rpc,            \* position of Client.readPump
    rarg,           \* locals of the command readPump is executing
    farg,           \* locals of the file command readPump is executing
    wpc,            \* position of Client.writePump
    disp,           \* the event Server.handleMessages has received
    wire,           \* wire[c]: what the last step wrote to c.conn
    panicked,       \* the process died of a runtime panic
    ret,            \* the last direct call of the credential store, with its result
    first,          \* history: username -> password of its first successful RegisterUser
    xfer,           \* the FileTransfer objects allocated so far
    active,         \* activeTransfers: key -> index of its FileTransfer in xfer
    clock,          \* time.Now() as a count of InitiateFileTransfer calls
    events,         \* history: events[t], the types of the messages written
                    \* for transfer t, in the order of the writes
    relayed,        \* history: relayed[t], the chunks of transfer t that were
                    \* written to the open socket of its receiver, in order
    holder,         \* holder[l]: the goroutine that holds the mutex l
    todo            \* todo[g]: the lock operations the goroutine g has still
                    \* to execute in the handler it is running

vars == <<clients, rooms, members, users, send, closes, username,
          authenticated, currentRoom, hpc, rpc, rarg, wpc, disp, wire,
          panicked, ret, first, xfer, active, clock, farg, events, relayed,
          holder, todo>>

\* the transfer registry of file.go
xvars == <<xfer, active, clock, farg, events, relayed>>

\* the mutexes as the lock protocol sees them
lvars == <<holder, todo>>

\* ---------------------------------------------------------------- messages
Message(sender, room, content, type) ==
    [Sender |-> sender, RoomName |-> room, Content |-> content, Type |-> type]

ServerText(content) == Message("Server", "", content, "text")

WelcomeMsg ==
    ServerText("Welcome to the chat server! Please log in with /login username password")

JoinedMsg(r, u) == Message("Server", r, u \o " has joined the room", "text")

LeftMsg(r, u) == Message("Server", r, u \o " has left the room", "text")

JoinConfirmMsg(r) == ServerText("You have joined room: " \o r)

ChatMsg(u, r) == Message(u, r, "hello", "text")

GlobalMsg == Message("Server", "", "notice", "text")

Idle == [kind |-> "idle"]

NoArg == [u |-> "", p |-> "", r |-> "", m |-> Idle]

\* the locals of the file commands: recipient / transfer (0 is nil)
NoFile ==
    [to |-> 0, u |-> "", t |-> 0, f |-> "", n |-> 0, d |-> <<>>, last |-> FALSE]

Silent == [c \in Clients |-> <<>>]

\* c.directSend(m): one conn.Write on c's socket
directSend(c, m) == [Silent EXCEPT ![c] = <<m>>]

closed(c) == closes[c] > 0

\* c.conn is open until writePump's or readPump's deferred conn.Close()
ConnOpen(c) == wpc[c] # "done" /\ rpc[c] # "done"

\* ------------------------------------------------------- credential store
hashPassword(p) == <<"sha256", p>>

NewUser(u, p) == [Username |-> u, PasswordHash |-> hashPassword(p)]

CheckPassword(user, p) == user.PasswordHash = hashPassword(p)

AuthenticateUser(u, p) ==
    /\ u \in DOMAIN users
    /\ CheckPassword(users[u], p)

\* RegisterUser's result; RegisteredUsers(u, p) is the store afterwards
RegisterUser(u, p) == u \notin DOMAIN users

\* mutant: the `exists` test is missing, the identity is overwritten
RegisteredUsers_Overwrite(u, p) ==
    [x \in DOMAIN users \cup {u} |-> IF x = u THEN NewUser(u, p) ELSE users[x]]

RegisteredUsers(u, p) ==
    IF u \in DOMAIN users THEN users
    ELSE [x \in DOMAIN users \cup {u} |-> IF x = u THEN NewUser(u, p) ELSE users[x]]

\* history of the successful registrations
FirstSecrets(u, p) ==
    IF RegisterUser(u, p)
    THEN [x \in DOMAIN first \cup {u} |-> IF x = u THEN p ELSE first[x]]
    ELSE first

\* -------------------------------------------------------------------- rooms
\* Room.AddClient: the member set afterwards, and the notices it writes
AddClientMembers(r, c) == [members EXCEPT ![r] = @ \cup {c}]

\* mutant: the notice goes to the joining session as well
AddClientWire_Self(r, c) ==
    [d \in Clients |->
        IF (d \in members[r] \/ d = c) /\ authenticated[d]
        THEN <<JoinedMsg(r, username[c])>> ELSE <<>>]

AddClientWire(r, c) ==
    [d \in Clients |->
        IF d \in members[r] /\ d # c /\ authenticated[d]
        THEN <<JoinedMsg(r, username[c])>> ELSE <<>>]

\* Room.RemoveClient
RemoveClientMembers(r, c) == [members EXCEPT ![r] = @ \ {c}]

\* mutant: the membership test `if _, ok := r.clients[client]; ok` is missing
RemoveClientWire_Always(r, c) ==
    [d \in Clients |->
        IF d \in members[r] /\ d # c /\ authenticated[d]
        THEN <<LeftMsg(r, username[c])>> ELSE <<>>]

RemoveClientWire(r, c) ==
    [d \in Clients |->
        IF c \in members[r] /\ d \in members[r] /\ d # c /\ authenticated[d]
        THEN <<LeftMsg(r, username[c])>> ELSE <<>>]

\* Room.Broadcast
BroadcastWire(r, m) ==
    [d \in Clients |->
        IF d \in members[r] /\ authenticated[d] THEN <<m>> ELSE <<>>]

\* -------------------------------------------------------------------- Init
\* ------------------------------------------------------------- the mutexes
\* Server.mutex, transferMutex and the Room.mutex of every room
RoomMutex(r) == "room " \o r

Mutexes == {"mutex", "transferMutex"} \cup {RoomMutex(r) : r \in RoomNames}

\* the goroutines that lock: handleMessages (0) and the readPump of session c
Dispatcher == 0

Goroutines == {Dispatcher} \cup Live

\* holder[l] of a mutex nobody holds
Free == -1

Lock(l) == [op |-> "Lock", l |-> l]

Unlock(l) == [op |-> "Unlock", l |-> l]

\* a directSend executed inside a critical section
SocketWrite == [op |-> "Write", l |-> ""]

\* l.Lock(); in-memory work; l.Unlock()
Section(l) == <<Lock(l), Unlock(l)>>

\* Room.AddClient, Room.RemoveClient, Room.Broadcast: r.mutex.Lock(), defer
\* r.mutex.Unlock(), directSend to the members
RoomSection(r) == <<Lock(RoomMutex(r)), SocketWrite, Unlock(RoomMutex(r))>>

\* handleMessages: case client := <-s.register, case client := <-s.unregister
RegisterLocks == Section("mutex")

\* handleMessages: case message := <-s.broadcast with a room name:
\* room.Broadcast inside s.mutex
BroadcastLocks(r) == <<Lock("mutex")>> \o RoomSection(r) \o <<Unlock("mutex")>>

\* handleMessages: case message := <-s.broadcast with an empty room name
GlobalLocks == Section("mutex")

\* /login: AuthenticateUser, RegisterUser when it fails, AddClient(general)
\* when one of them succeeds
LoginLocks ==
    {Section("mutex") \o RoomSection("general"),
     Section("mutex") \o Section("mutex") \o RoomSection("general"),
     Section("mutex") \o Section("mutex")}

\* mutant: the room is created while the old room's lock is held
JoinLocks_Nested(old, new) ==
    <<Lock(RoomMutex(old)), Lock("mutex"), Unlock("mutex"), SocketWrite,
      Unlock(RoomMutex(old))>> \o RoomSection(new)

\* /join: the room is created under s.mutex, RemoveClient on the current
\* room, AddClient on the new one
JoinLocks(old, new) ==
    Section("mutex") \o RoomSection(old) \o RoomSection(new)

\* /rooms: the listing under s.mutex
RoomsLocks == Section("mutex")

\* /users: the listing under room.mutex
UsersLocks(r) == Section(RoomMutex(r))

\* /sendfile: the recipient lookup under s.mutex, InitiateFileTransfer
SendFileLocks == Section("mutex") \o Section("transferMutex")

\* /accept and /reject: the no-argument scan of /accept, the lookup of
\* AcceptFileTransfer or RejectFileTransfer, the listing when nothing is
\* found, RemoveTransfer after a reject
AnswerLocks ==
    {Section("transferMutex"),
     Section("transferMutex") \o Section("transferMutex"),
     Section("transferMutex") \o Section("transferMutex")
        \o Section("transferMutex")}

\* a file-chunk line: ProcessFileTransfer's lookup, "Update progress",
\* UpdateTransferStatus and RemoveTransfer when the transfer completes
ChunkLocks ==
    {Section("transferMutex"),
     Section("transferMutex") \o Section("transferMutex"),
     Section("transferMutex") \o Section("transferMutex")
        \o Section("transferMutex") \o Section("transferMutex")}

\* the handlers the goroutine g can run, as sequences of lock operations
Handlers(g) ==
    IF g = Dispatcher
    THEN {RegisterLocks, GlobalLocks} \cup {BroadcastLocks(r) : r \in RoomNames}
    ELSE LoginLocks \cup AnswerLocks \cup ChunkLocks
            \cup {RoomsLocks, SendFileLocks}
            \cup {UsersLocks(r) : r \in RoomNames}
            \cup {JoinLocks(old, new) : old \in RoomNames, new \in RoomNames}

\* ---------------------------------------------------------------- Init
Init ==
    /\ clients = {}
    /\ rooms = {"general"}
    /\ members = [r \in RoomNames |-> {}]
    /\ users = <<>>
    /\ send = [c \in Clients |-> <<>>]
    /\ closes = [c \in Clients |-> 0]
    /\ username = [c \in Clients |-> ""]
    /\ authenticated = [c \in Clients |-> FALSE]
    /\ currentRoom = [c \in Clients |-> "general"]
    /\ hpc = [c \in Clients |-> "idle"]
    /\ rpc = [c \in Clients |-> "off"]
    /\ rarg = [c \in Clients |-> NoArg]
    /\ wpc = [c \in Clients |-> "off"]
    /\ disp = Idle
    /\ wire = Silent
    /\ panicked = FALSE
    /\ ret = Idle
    /\ first = <<>>
    /\ xfer = <<>>
    /\ active = <<>>
    /\ clock = 0
    /\ farg = [c \in Clients |-> NoFile]
    /\ events = <<>>
    /\ relayed = <<>>
    /\ holder = [l \in Mutexes |-> Free]
    /\ todo = [g \in Goroutines |-> <<>>]

\* ------------------------------------------------------------ Client.Handle
\* accept + NewClient + `c.server.register <- c`, then go readPump, go writePump
Connect(c) ==
    /\ ~panicked
    /\ hpc[c] = "idle"
    /\ disp = Idle
    /\ disp' = [kind |-> "register", client |-> c]
    /\ hpc' = [hpc EXCEPT ![c] = "welcome"]
    /\ rpc' = [rpc EXCEPT ![c] = "read"]
    /\ wpc' = [wpc EXCEPT ![c] = "run"]
    /\ wire' = Silent
    /\ UNCHANGED <<clients, rooms, members, users, send, closes, username,
                   authenticated, currentRoom, rarg, panicked>>
    /\ UNCHANGED <<ret, first>>
    /\ UNCHANGED <<xvars, lvars>>

\* `c.send <- Message{welcome}`: a blocking send; on a closed channel it panics
Welcome(c) ==
    /\ ~panicked
    /\ hpc[c] = "welcome"
    /\ \/ /\ closed(c)
          /\ panicked' = TRUE
          /\ UNCHANGED <<send, hpc>>
       \/ /\ ~closed(c)
          /\ Len(send[c]) < QueueCap
          /\ send' = [send EXCEPT ![c] = Append(@, WelcomeMsg)]
          /\ hpc' = [hpc EXCEPT ![c] = "done"]
          /\ UNCHANGED panicked
    /\ wire' = Silent
    /\ UNCHANGED <<clients, rooms, members, users, closes, username,
                   authenticated, currentRoom, rpc, rarg, wpc, disp>>
    /\ UNCHANGED <<ret, first>>
    /\ UNCHANGED <<xvars, lvars>>

\* ---------------------------------------------------- Server.handleMessages
\* mutant: a session is put into general as soon as it is registered
DispatchRegister_Joins ==
    /\ ~panicked
    /\ disp.kind = "register"
    /\ clients' = clients \cup {disp.client}
    /\ members' = AddClientMembers("general", disp.client)
    /\ disp' = Idle
    /\ wire' = Silent
    /\ UNCHANGED <<rooms, users, send, closes, username,
                   authenticated, currentRoom, hpc, rpc, rarg, wpc, panicked>>
    /\ UNCHANGED <<ret, first>>
    /\ UNCHANGED <<xvars, lvars>>

DispatchRegister ==
    /\ ~panicked
    /\ disp.kind = "register"
    /\ clients' = clients \cup {disp.client}
    /\ disp' = Idle
    /\ wire' = Silent
    /\ UNCHANGED <<rooms, members, users, send, closes, username,
                   authenticated, currentRoom, hpc, rpc, rarg, wpc, panicked>>
    /\ UNCHANGED <<ret, first>>
    /\ UNCHANGED <<xvars, lvars>>

\* mutant: the `if _, ok := s.clients[client]; ok` test is missing
DispatchUnregister_Unguarded ==
    /\ ~panicked
    /\ disp.kind = "unregister"
    /\ clients' = clients \ {disp.client}
    /\ closes' = [closes EXCEPT ![disp.client] = @ + 1]
    /\ panicked' = closed(disp.client)
    /\ disp' = Idle
    /\ wire' = Silent
    /\ UNCHANGED <<rooms, members, users, send, username, authenticated,
                   currentRoom, hpc, rpc, rarg, wpc, ret, first>>
    /\ UNCHANGED <<xvars, lvars>>

DispatchUnregister ==
    /\ ~panicked
    /\ disp.kind = "unregister"
    /\ IF disp.client \in clients
       THEN /\ clients' = clients \ {disp.client}
            /\ closes' = [closes EXCEPT ![disp.client] = @ + 1]
            /\ panicked' = closed(disp.client)
       ELSE UNCHANGED <<clients, closes, panicked>>
    /\ disp' = Idle
    /\ wire' = Silent
    /\ UNCHANGED <<rooms, members, users, send, username, authenticated,
                   currentRoom, hpc, rpc, rarg, wpc>>
    /\ UNCHANGED <<ret, first>>
    /\ UNCHANGED <<xvars, lvars>>

\* case message := <-s.broadcast, message.RoomName != ""
DispatchRoomBroadcast ==
    /\ ~panicked
    /\ disp.kind = "broadcast"
    /\ disp.msg.RoomName # ""
    /\ wire' = IF disp.msg.RoomName \in rooms
               THEN BroadcastWire(disp.msg.RoomName, disp.msg)
               ELSE Silent
    /\ disp' = Idle
    /\ UNCHANGED <<clients, rooms, members, users, send, closes, username,
                   authenticated, currentRoom, hpc, rpc, rarg, wpc, panicked>>
    /\ UNCHANGED <<ret, first>>
    /\ UNCHANGED <<xvars, lvars>>

\* the queue of session c after the select { case client.send <- message }
\* of the global branch; a session whose queue is full is left as it is
GlobalQueue(c, m) ==
    IF c \in clients /\ authenticated[c] /\ ~closed(c) /\ Len(send[c]) < QueueCap
    THEN Append(send[c], m) ELSE send[c]

\* the sessions the default branch closes and deletes
GlobalSaturated ==
    {c \in clients : authenticated[c] /\ ~closed(c) /\ Len(send[c]) >= QueueCap}

\* case message := <-s.broadcast, message.RoomName == "": to every session
DispatchGlobalBroadcast ==
    /\ ~panicked
    /\ disp.kind = "broadcast"
    /\ disp.msg.RoomName = ""
    /\ send' = [c \in Clients |-> GlobalQueue(c, disp.msg)]
    /\ closes' = [c \in Clients |-> IF c \in GlobalSaturated THEN closes[c] + 1 ELSE closes[c]]
    /\ clients' = clients \ GlobalSaturated
    /\ panicked' = (\E c \in clients : authenticated[c] /\ closed(c))
    /\ disp' = Idle
    /\ wire' = Silent
    /\ UNCHANGED <<rooms, members, users, username, authenticated,
                   currentRoom, hpc, rpc, rarg, wpc>>
    /\ UNCHANGED <<ret, first>>
    /\ UNCHANGED <<xvars, lvars>>

\* a Message with an empty RoomName is handed to s.broadcast
GlobalSend ==
    /\ ~panicked
    /\ disp = Idle
    /\ disp' = [kind |-> "broadcast", msg |-> GlobalMsg]
    /\ wire' = Silent
    /\ UNCHANGED <<clients, rooms, members, users, send, closes, username,
                   authenticated, currentRoom, hpc, rpc, rarg, wpc, panicked>>
    /\ UNCHANGED <<ret, first>>
    /\ UNCHANGED <<xvars, lvars>>

\* ------------------------------------------------------- Client.readPump
\* ReadString fails (EOF or error): break, the deferred function starts
Disconnect(c) ==
    /\ ~panicked
    /\ rpc[c] = "read"
    /\ rpc' = [rpc EXCEPT ![c] = "unreg"]
    /\ wire' = Silent
    /\ UNCHANGED <<clients, rooms, members, users, send, closes, username,
                   authenticated, currentRoom, hpc, rarg, wpc, disp, panicked>>
    /\ UNCHANGED <<ret, first>>
    /\ UNCHANGED <<xvars, lvars>>

\* deferred `c.server.unregister <- c; c.conn.Close()`
Unregister(c) ==
    /\ ~panicked
    /\ rpc[c] = "unreg"
    /\ disp = Idle
    /\ disp' = [kind |-> "unregister", client |-> c]
    /\ rpc' = [rpc EXCEPT ![c] = "done"]
    /\ wire' = Silent
    /\ UNCHANGED <<clients, rooms, members, users, send, closes, username,
                   authenticated, currentRoom, hpc, rarg, wpc, panicked>>
    /\ UNCHANGED <<ret, first>>
    /\ UNCHANGED <<xvars, lvars>>

\* mutant: the `if !c.authenticated` test is missing
Chat_Open(c) ==
    /\ ~panicked
    /\ rpc[c] = "read"
    /\ ConnOpen(c)
    /\ rpc' = [rpc EXCEPT ![c] = "chat"]
    /\ rarg' = [rarg EXCEPT ![c].m = ChatMsg(username[c], currentRoom[c])]
    /\ wire' = Silent
    /\ UNCHANGED <<clients, rooms, members, users, send, closes, username,
                   authenticated, currentRoom, hpc, wpc, disp, panicked>>
    /\ UNCHANGED <<ret, first>>
    /\ UNCHANGED <<xvars, lvars>>

\* a line of chat text
Chat(c) ==
    /\ ~panicked
    /\ rpc[c] = "read"
    /\ ConnOpen(c)
    /\ IF ~authenticated[c]
       THEN /\ wire' = directSend(c,
                 ServerText("You must log in first with /login username password"))
            /\ UNCHANGED <<rpc, rarg>>
       ELSE /\ rpc' = [rpc EXCEPT ![c] = "chat"]
            /\ rarg' = [rarg EXCEPT ![c].m = ChatMsg(username[c], currentRoom[c])]
            /\ wire' = Silent
    /\ UNCHANGED <<clients, rooms, members, users, send, closes, username,
                   authenticated, currentRoom, hpc, wpc, disp, panicked>>
    /\ UNCHANGED <<ret, first>>
    /\ UNCHANGED <<xvars, lvars>>

\* `c.server.broadcast <- Message{...}`
ChatSend(c) ==
    /\ ~panicked
    /\ rpc[c] = "chat"
    /\ disp = Idle
    /\ disp' = [kind |-> "broadcast", msg |-> rarg[c].m]
    /\ rpc' = [rpc EXCEPT ![c] = "read"]
    /\ rarg' = [rarg EXCEPT ![c] = NoArg]
    /\ wire' = Silent
    /\ UNCHANGED <<clients, rooms, members, users, send, closes, username,
                   authenticated, currentRoom, hpc, wpc, panicked>>
    /\ UNCHANGED <<ret, first>>
    /\ UNCHANGED <<xvars, lvars>>

\* ------------------------------------------- Client.handleCommand: /login
\* `/login u p`: AuthenticateUser, and the success branch up to directSend
Login(c, u, p) ==
    /\ ~panicked
    /\ rpc[c] = "read"
    /\ ConnOpen(c)
    /\ IF AuthenticateUser(u, p)
       THEN /\ username' = [username EXCEPT ![c] = u]
            /\ authenticated' = [authenticated EXCEPT ![c] = TRUE]
            /\ wire' = directSend(c, ServerText("Login successful!"))
            /\ rpc' = [rpc EXCEPT ![c] = "login_add"]
            /\ UNCHANGED rarg
       ELSE /\ rpc' = [rpc EXCEPT ![c] = "login_reg"]
            /\ rarg' = [rarg EXCEPT ![c].u = u, ![c].p = p]
            /\ wire' = Silent
            /\ UNCHANGED <<username, authenticated>>
    /\ UNCHANGED <<clients, rooms, members, users, send, closes, currentRoom,
                   hpc, wpc, disp, panicked>>
    /\ UNCHANGED <<ret, first>>
    /\ UNCHANGED <<xvars, lvars>>

\* mutant: a failed /login logs the session out
LoginRegister_Logout(c) ==
    /\ ~panicked
    /\ rpc[c] = "login_reg"
    /\ users' = RegisteredUsers(rarg[c].u, rarg[c].p)
    /\ IF RegisterUser(rarg[c].u, rarg[c].p)
       THEN /\ username' = [username EXCEPT ![c] = rarg[c].u]
            /\ authenticated' = [authenticated EXCEPT ![c] = TRUE]
            /\ wire' = directSend(c, ServerText("Registered and logged in!"))
            /\ rpc' = [rpc EXCEPT ![c] = "login_add"]
       ELSE /\ wire' = directSend(c, ServerText("Invalid credentials"))
            /\ rpc' = [rpc EXCEPT ![c] = "read"]
            /\ username' = [username EXCEPT ![c] = ""]
            /\ authenticated' = [authenticated EXCEPT ![c] = FALSE]
    /\ rarg' = [rarg EXCEPT ![c] = NoArg]
    /\ UNCHANGED <<clients, rooms, members, send, closes, currentRoom, hpc,
                   wpc, disp, panicked>>
    /\ first' = FirstSecrets(rarg[c].u, rarg[c].p)
    /\ UNCHANGED ret
    /\ UNCHANGED <<xvars, lvars>>

\* the else branch: RegisterUser, then either branch up to directSend
LoginRegister(c) ==
    /\ ~panicked
    /\ rpc[c] = "login_reg"
    /\ users' = RegisteredUsers(rarg[c].u, rarg[c].p)
    /\ IF RegisterUser(rarg[c].u, rarg[c].p)
       THEN /\ username' = [username EXCEPT ![c] = rarg[c].u]
            /\ authenticated' = [authenticated EXCEPT ![c] = TRUE]
            /\ wire' = directSend(c, ServerText("Registered and logged in!"))
            /\ rpc' = [rpc EXCEPT ![c] = "login_add"]
       ELSE /\ wire' = directSend(c, ServerText("Invalid credentials"))
            /\ rpc' = [rpc EXCEPT ![c] = "read"]
            /\ UNCHANGED <<username, authenticated>>
    /\ rarg' = [rarg EXCEPT ![c] = NoArg]
    /\ UNCHANGED <<clients, rooms, members, send, closes, currentRoom, hpc,
                   wpc, disp, panicked>>
    /\ first' = FirstSecrets(rarg[c].u, rarg[c].p)
    /\ UNCHANGED ret
    /\ UNCHANGED <<xvars, lvars>>

\* `c.server.rooms["general"].AddClient(c)`
LoginAdd(c) ==
    /\ ~panicked
    /\ rpc[c] = "login_add"
    /\ members' = AddClientMembers("general", c)
    /\ wire' = AddClientWire("general", c)
    /\ rpc' = [rpc EXCEPT ![c] = "read"]
    /\ UNCHANGED <<clients, rooms, users, send, closes, username,
                   authenticated, currentRoom, hpc, rarg, wpc, disp, panicked>>
    /\ UNCHANGED <<ret, first>>
    /\ UNCHANGED <<xvars, lvars>>

\* -------------------------------------------- Client.handleCommand: /join
\* `/join r`: the authentication check and the room creation under s.mutex
\* mutant: the `exists` test is missing, the room is made anew on every /join
Join_Recreate(c, r) ==
    /\ ~panicked
    /\ rpc[c] = "read"
    /\ ConnOpen(c)
    /\ IF ~authenticated[c]
       THEN /\ wire' = directSend(c, ServerText("You must log in first"))
            /\ UNCHANGED <<rooms, members, rpc, rarg>>
       ELSE /\ rooms' = rooms \cup {r}
            /\ members' = [members EXCEPT ![r] = {}]
            /\ rpc' = [rpc EXCEPT ![c] = "join_leave"]
            /\ rarg' = [rarg EXCEPT ![c].r = r]
            /\ wire' = Silent
    /\ UNCHANGED <<clients, users, send, closes, username,
                   authenticated, currentRoom, hpc, wpc, disp, panicked>>
    /\ UNCHANGED <<ret, first>>
    /\ UNCHANGED <<xvars, lvars>>

Join(c, r) ==
    /\ ~panicked
    /\ rpc[c] = "read"
    /\ ConnOpen(c)
    /\ IF ~authenticated[c]
       THEN /\ wire' = directSend(c, ServerText("You must log in first"))
            /\ UNCHANGED <<rooms, rpc, rarg>>
       ELSE /\ rooms' = rooms \cup {r}
            /\ rpc' = [rpc EXCEPT ![c] = "join_leave"]
            /\ rarg' = [rarg EXCEPT ![c].r = r]
            /\ wire' = Silent
    /\ UNCHANGED <<clients, members, users, send, closes, username,
                   authenticated, currentRoom, hpc, wpc, disp, panicked>>
    /\ UNCHANGED <<ret, first>>
    /\ UNCHANGED <<xvars, lvars>>

\* "Leave current room": rooms[c.currentRoom].RemoveClient(c)
JoinLeave(c) ==
    /\ ~panicked
    /\ rpc[c] = "join_leave"
    /\ IF currentRoom[c] # "" /\ currentRoom[c] \in rooms
       THEN /\ members' = RemoveClientMembers(currentRoom[c], c)
            /\ wire' = RemoveClientWire(currentRoom[c], c)
       ELSE /\ wire' = Silent
            /\ UNCHANGED members
    /\ rpc' = [rpc EXCEPT ![c] = "join_add"]
    /\ UNCHANGED <<clients, rooms, users, send, closes, username,
                   authenticated, currentRoom, hpc, rarg, wpc, disp, panicked>>
    /\ UNCHANGED <<ret, first>>
    /\ UNCHANGED <<xvars, lvars>>

\* "Join new room": c.currentRoom = roomName; rooms[roomName].AddClient(c)
JoinAdd(c) ==
    /\ ~panicked
    /\ rpc[c] = "join_add"
    /\ currentRoom' = [currentRoom EXCEPT ![c] = rarg[c].r]
    /\ IF rarg[c].r \in rooms
       THEN /\ members' = AddClientMembers(rarg[c].r, c)
            /\ wire' = AddClientWire(rarg[c].r, c)
       ELSE /\ wire' = Silent
            /\ UNCHANGED members
    /\ rpc' = [rpc EXCEPT ![c] = "join_confirm"]
    /\ UNCHANGED <<clients, rooms, users, send, closes, username,
                   authenticated, hpc, rarg, wpc, disp, panicked>>
    /\ UNCHANGED <<ret, first>>
    /\ UNCHANGED <<xvars, lvars>>

\* the confirmation: select { case c.send <- directMsg: default: }
JoinConfirm(c) ==
    /\ ~panicked
    /\ rpc[c] = "join_confirm"
    /\ IF closed(c)
       THEN /\ panicked' = TRUE
            /\ UNCHANGED send
       ELSE /\ send' = [send EXCEPT ![c] =
                   IF Len(@) < QueueCap
                   THEN Append(@, JoinConfirmMsg(rarg[c].r)) ELSE @]
            /\ UNCHANGED panicked
    /\ rpc' = [rpc EXCEPT ![c] = "read"]
    /\ rarg' = [rarg EXCEPT ![c] = NoArg]
    /\ wire' = Silent
    /\ UNCHANGED <<clients, rooms, members, users, closes, username,
                   authenticated, currentRoom, hpc, wpc, disp>>
    /\ UNCHANGED <<ret, first>>
    /\ UNCHANGED <<xvars, lvars>>

\* ------------------------------------------------------ Client.writePump
\* mutant: the loop takes the newest message of the queue
Write_Newest(c) ==
    /\ ~panicked
    /\ wpc[c] = "run"
    /\ send[c] # <<>>
    /\ send' = [send EXCEPT ![c] = SubSeq(@, 1, Len(@) - 1)]
    /\ wire' = directSend(c, send[c][Len(send[c])])
    /\ UNCHANGED <<clients, rooms, members, users, closes, username,
                   authenticated, currentRoom, hpc, rpc, rarg, wpc, disp,
                   panicked>>
    /\ UNCHANGED <<ret, first>>
    /\ UNCHANGED <<xvars, lvars>>

\* one iteration of `for message := range c.send`: the write succeeds
Write(c) ==
    /\ ~panicked
    /\ wpc[c] = "run"
    /\ send[c] # <<>>
    /\ send' = [send EXCEPT ![c] = Tail(@)]
    /\ wire' = directSend(c, Head(send[c]))
    /\ UNCHANGED <<clients, rooms, members, users, closes, username,
                   authenticated, currentRoom, hpc, rpc, rarg, wpc, disp,
                   panicked>>
    /\ UNCHANGED <<ret, first>>
    /\ UNCHANGED <<xvars, lvars>>

\* one iteration whose conn.Write fails: break, deferred conn.Close
WriteError(c) ==
    /\ ~panicked
    /\ wpc[c] = "run"
    /\ send[c] # <<>>
    /\ send' = [send EXCEPT ![c] = Tail(@)]
    /\ wpc' = [wpc EXCEPT ![c] = "done"]
    /\ wire' = Silent
    /\ UNCHANGED <<clients, rooms, members, users, closes, username,
                   authenticated, currentRoom, hpc, rpc, rarg, disp,
                   panicked>>
    /\ UNCHANGED <<ret, first>>
    /\ UNCHANGED <<xvars, lvars>>

\* the peer has stopped reading and the socket buffer is full: conn.Write
\* (no deadline is set) does not return for the message just received
WriteBlock(c) ==
    /\ ~panicked
    /\ wpc[c] = "run"
    /\ send[c] # <<>>
    /\ rpc[c] \notin {"unreg", "done"}
    /\ send' = [send EXCEPT ![c] = Tail(@)]
    /\ wpc' = [wpc EXCEPT ![c] = "blocked"]
    /\ wire' = Silent
    /\ UNCHANGED <<clients, rooms, members, users, closes, username,
                   authenticated, currentRoom, hpc, rpc, rarg, disp,
                   panicked>>
    /\ UNCHANGED <<ret, first>>
    /\ UNCHANGED <<xvars, lvars>>

\* the connection is gone (the peer has closed it, or readPump's deferred
\* conn.Close has run): the blocked conn.Write returns an error, break
WriteFail(c) ==
    /\ ~panicked
    /\ wpc[c] = "blocked"
    /\ rpc[c] \in {"unreg", "done"}
    /\ wpc' = [wpc EXCEPT ![c] = "done"]
    /\ wire' = Silent
    /\ UNCHANGED <<clients, rooms, members, users, send, closes, username,
                   authenticated, currentRoom, hpc, rpc, rarg, disp,
                   panicked>>
    /\ UNCHANGED <<ret, first>>
    /\ UNCHANGED <<xvars, lvars>>

\* the socket of session d takes no more bytes: its writePump is blocked in
\* conn.Write and its peer is still connected
Stalled(d) == wpc[d] = "blocked" /\ rpc[d] \notin {"unreg", "done"}

\* the conn.Write calls of the step return: it writes to no stalled socket
\* (a step that would does not complete, its goroutine stays where it is)
Writable == \A d \in Clients : Stalled(d) => wire'[d] = <<>>

\* the range loop ends: the channel is closed and drained
WriteEnd(c) ==
    /\ ~panicked
    /\ wpc[c] = "run"
    /\ send[c] = <<>>
    /\ closed(c)
    /\ wpc' = [wpc EXCEPT ![c] = "done"]
    /\ wire' = Silent
    /\ UNCHANGED <<clients, rooms, members, users, send, closes, username,
                   authenticated, currentRoom, hpc, rpc, rarg, disp,
                   panicked>>
    /\ UNCHANGED <<ret, first>>
    /\ UNCHANGED <<xvars, lvars>>

\* ----------------------------------------------------------------- file.go
\* fmt.Sprintf("%s_%s_%s", sender.username, receiver.username, fileName)
TransferKey(su, ru, f) == su \o "_" \o ru \o "_" \o f

\* the values of the map activeTransfers
Registry == {active[k] : k \in DOMAIN active}

FileTransfer(s, r, f, n, now) ==
    [Sender |-> s, Receiver |-> r, FileName |-> f, FileSize |-> n,
     ReceivedSize |-> 0, Status |-> "pending", StartTime |-> now]

\* mutant: the size test is fileSize < 0
InitiateRefused_Negative(s, r, f, n) == s = 0 \/ r = 0 \/ f = "" \/ n < 0

\* InitiateFileTransfer's argument check: it returns nil
InitiateRefused(s, r, f, n) == s = 0 \/ r = 0 \/ f = "" \/ n <= 0

\* InitiateFileTransfer finds a pending entry under the key
InitiateRefreshes(s, r, f) ==
    /\ TransferKey(username[s], username[r], f) \in DOMAIN active
    /\ xfer[active[TransferKey(username[s], username[r], f)]].Status = "pending"

\* InitiateFileTransfer: the transfer it returns (0 is nil)
InitiateFileTransfer(s, r, f, n) ==
    IF InitiateRefused(s, r, f, n) THEN 0
    ELSE IF InitiateRefreshes(s, r, f)
         THEN active[TransferKey(username[s], username[r], f)]
         ELSE Len(xfer) + 1

\* mutant: a pending entry is not looked for, every call allocates
InitiatedTransfers_Fresh(s, r, f, n) ==
    IF InitiateRefused(s, r, f, n) THEN xfer
    ELSE Append(xfer, FileTransfer(s, r, f, n, clock + 1))

\* InitiateFileTransfer: the FileTransfer objects afterwards
InitiatedTransfers(s, r, f, n) ==
    IF InitiateRefused(s, r, f, n) THEN xfer
    ELSE IF InitiateRefreshes(s, r, f)
         THEN [xfer EXCEPT
                  ![active[TransferKey(username[s], username[r], f)]] =
                      [@ EXCEPT !.FileSize = n, !.StartTime = clock + 1]]
         ELSE Append(xfer, FileTransfer(s, r, f, n, clock + 1))

\* InitiateFileTransfer: activeTransfers afterwards
InitiatedActive(s, r, f, n) ==
    IF InitiateRefused(s, r, f, n) \/ InitiateRefreshes(s, r, f) THEN active
    ELSE [k \in DOMAIN active \cup {TransferKey(username[s], username[r], f)} |->
             IF k = TransferKey(username[s], username[r], f)
             THEN Len(xfer) + 1 ELSE active[k]]

\* RemoveTransfer(transfer): activeTransfers afterwards
RemoveTransfer(t) ==
    IF t = 0 THEN active
    ELSE [k \in DOMAIN active \ {TransferKey(username[xfer[t].Sender],
                                             username[xfer[t].Receiver],
                                             xfer[t].FileName)} |-> active[k]]

\* the messages of the sequence ws of <<session, message>> addressed to d
WritesTo(ws, d) ==
    LET F[i \in 0..Len(ws)] ==
            IF i = 0 THEN <<>>
            ELSE IF ws[i][1] = d THEN Append(F[i - 1], ws[i][2]) ELSE F[i - 1]
    IN F[Len(ws)]

\* several directSend calls in a row
directSends(ws) == [d \in Clients |-> WritesTo(ws, d)]

FileMessage(sender, content, type, f, d) ==
    [Sender |-> sender, RoomName |-> "", Content |-> content, Type |-> type,
     FileName |-> f, FileData |-> d]

Digit(k) ==
    CASE k = 0 -> "0" [] k = 1 -> "1" [] k = 2 -> "2" [] k = 3 -> "3"
      [] k = 4 -> "4" [] k = 5 -> "5" [] k = 6 -> "6" [] k = 7 -> "7"
      [] k = 8 -> "8" [] k = 9 -> "9"

RECURSIVE Itoa(_)
Itoa(n) == IF n < 10 THEN Digit(n) ELSE Itoa(n \div 10) \o Digit(n % 10)

\* fmt.Sprintf("%.2f", float64(n)/1024)
KB(n) ==
    LET h == (200 * n + 1024) \div 2048
    IN Itoa(h \div 100) \o "." \o Digit((h \div 10) % 10) \o Digit(h % 10)

\* fmt.Sprintf("%.1f%%", received/size*100)
Percent(received, size) ==
    LET t == (2000 * received + size) \div (2 * size)
    IN Itoa(t \div 10) \o "." \o Digit(t % 10) \o "%"

FileRequestMsg(c, f, n) ==
    FileMessage(username[c],
        "Incoming file: " \o f \o " (" \o KB(n) \o " KB). Type /accept "
            \o username[c] \o " or /reject " \o username[c],
        "file-request", f, <<>>)

FileAcceptedMsg(t) ==
    Message(username[xfer[t].Receiver], "",
            "File transfer request for " \o xfer[t].FileName \o " accepted",
            "file-accepted")

FileRejectedMsg(t) ==
    Message(username[xfer[t].Receiver], "",
            "File transfer request for " \o xfer[t].FileName \o " rejected",
            "file-rejected")

NoPendingMsg(su) == ServerText("No pending file transfer from " \o su)

NoActiveMsg ==
    ServerText("No active file transfer found. Recipient may not have accepted yet.")

FileChunkMsg(c, f, d) == FileMessage(username[c], "", "file-chunk", f, d)

LoginFirst == ServerText("You must log in first")

\* /sendfile: the sessions the lookup loop over s.clients can return
Recipients(target) ==
    {d \in clients : username[d] = target /\ authenticated[d]}

\* `/sendfile target f n` up to the end of the lookup under s.mutex
SendFile(c, target, f, n) ==
    /\ ~panicked
    /\ rpc[c] = "read"
    /\ ConnOpen(c)
    /\ \/ /\ ~authenticated[c]
          /\ wire' = directSend(c, LoginFirst)
          /\ UNCHANGED <<rpc, farg>>
       \/ /\ authenticated[c]
          /\ Recipients(target) = {}
          /\ wire' = directSend(c, ServerText("User not found or not online"))
          /\ UNCHANGED <<rpc, farg>>
       \/ /\ authenticated[c]
          /\ \E d \in Recipients(target) :
                farg' = [farg EXCEPT ![c] =
                            [NoFile EXCEPT !.to = d, !.u = target, !.f = f, !.n = n]]
          /\ rpc' = [rpc EXCEPT ![c] = "sendfile_init"]
          /\ wire' = Silent
    /\ UNCHANGED <<clients, rooms, members, users, send, closes, username,
                   authenticated, currentRoom, hpc, rarg, wpc, disp, panicked,
                   ret, first, xfer, active, clock>>
    /\ UNCHANGED <<events, relayed, lvars>>

\* the type ty is added to the history of transfer t
Logged(t, ty) == [events EXCEPT ![t] = Append(@, ty)]

\* /sendfile: the call of InitiateFileTransfer, and the notice when it
\* returns nil
SendFileInit(c) ==
    /\ ~panicked
    /\ rpc[c] = "sendfile_init"
    /\ xfer' = InitiatedTransfers(c, farg[c].to, farg[c].f, farg[c].n)
    /\ active' = InitiatedActive(c, farg[c].to, farg[c].f, farg[c].n)
    /\ events' = IF Len(xfer') > Len(xfer) THEN Append(events, <<>>) ELSE events
    /\ relayed' = IF Len(xfer') > Len(xfer) THEN Append(relayed, <<>>) ELSE relayed
    /\ UNCHANGED lvars
    /\ IF InitiateFileTransfer(c, farg[c].to, farg[c].f, farg[c].n) = 0
       THEN /\ wire' = directSend(c, ServerText("Error creating file transfer"))
            /\ rpc' = [rpc EXCEPT ![c] = "read"]
            /\ farg' = [farg EXCEPT ![c] = NoFile]
            /\ UNCHANGED clock
       ELSE /\ wire' = Silent
            /\ rpc' = [rpc EXCEPT ![c] = "sendfile_notify"]
            /\ farg' = [farg EXCEPT ![c].t =
                            InitiateFileTransfer(c, farg[c].to, farg[c].f, farg[c].n)]
            /\ clock' = clock + 1
    /\ UNCHANGED <<clients, rooms, members, users, send, closes, username,
                   authenticated, currentRoom, hpc, rarg, wpc, disp, panicked,
                   ret, first>>

\* /sendfile: the file-request to the recipient, the notice to the sender
SendFileNotify(c) ==
    /\ ~panicked
    /\ rpc[c] = "sendfile_notify"
    /\ wire' = directSends(<<
          <<farg[c].to, FileRequestMsg(c, farg[c].f, farg[c].n)>>,
          <<c, ServerText("File transfer request sent. Waiting for "
                  \o farg[c].u \o " to accept...")>> >>)
    /\ events' = Logged(farg[c].t, "file-request")
    /\ UNCHANGED <<relayed, lvars>>
    /\ rpc' = [rpc EXCEPT ![c] = "read"]
    /\ farg' = [farg EXCEPT ![c] = NoFile]
    /\ UNCHANGED <<clients, rooms, members, users, send, closes, username,
                   authenticated, currentRoom, hpc, rarg, wpc, disp, panicked,
                   ret, first, xfer, active, clock>>

\* mutant: the test t.Status == "pending" is missing
PendingFrom_AnyStatus(c, su) ==
    {t \in Registry : /\ xfer[t].Receiver = c
                      /\ username[xfer[t].Sender] = su}

\* the transfers the loop of AcceptFileTransfer / RejectFileTransfer can stop at
PendingFrom(c, su) ==
    {t \in Registry : /\ xfer[t].Receiver = c
                      /\ username[xfer[t].Sender] = su
                      /\ xfer[t].Status = "pending"}

\* mutant: the loop has no break, every matching transfer is accepted
Accept_All(c, su) ==
    /\ ~panicked
    /\ rpc[c] = "read"
    /\ ConnOpen(c)
    /\ \/ /\ ~authenticated[c]
          /\ wire' = directSend(c, LoginFirst)
          /\ UNCHANGED <<xfer, rpc, farg>>
       \/ /\ authenticated[c]
          /\ PendingFrom(c, su) = {}
          /\ wire' = directSend(c, NoPendingMsg(su))
          /\ UNCHANGED <<xfer, rpc, farg>>
       \/ /\ authenticated[c]
          /\ \E t \in PendingFrom(c, su) :
                /\ xfer' = [x \in DOMAIN xfer |->
                              IF x \in PendingFrom(c, su)
                              THEN [xfer[x] EXCEPT !.Status = "accepted"]
                              ELSE xfer[x]]
                /\ farg' = [farg EXCEPT ![c] = [NoFile EXCEPT !.t = t]]
          /\ rpc' = [rpc EXCEPT ![c] = "accept_notify"]
          /\ wire' = Silent
    /\ UNCHANGED <<clients, rooms, members, users, send, closes, username,
                   authenticated, currentRoom, hpc, rarg, wpc, disp,
                   panicked, ret, first, active, clock, events, relayed, lvars>>

\* `/accept su`: the loop of Client.AcceptFileTransfer under transferMutex,
\* and the notice when it finds nothing
Accept(c, su) ==
    /\ ~panicked
    /\ rpc[c] = "read"
    /\ ConnOpen(c)
    /\ \/ /\ ~authenticated[c]
          /\ wire' = directSend(c, LoginFirst)
          /\ UNCHANGED <<xfer, rpc, farg>>
       \/ /\ authenticated[c]
          /\ PendingFrom(c, su) = {}
          /\ wire' = directSend(c, NoPendingMsg(su))
          /\ UNCHANGED <<xfer, rpc, farg>>
       \/ /\ authenticated[c]
          /\ \E t \in PendingFrom(c, su) :
                /\ xfer' = [xfer EXCEPT ![t].Status = "accepted"]
                /\ farg' = [farg EXCEPT ![c] = [NoFile EXCEPT !.t = t]]
          /\ rpc' = [rpc EXCEPT ![c] = "accept_notify"]
          /\ wire' = Silent
    /\ UNCHANGED <<clients, rooms, members, users, send, closes, username,
                   authenticated, currentRoom, hpc, rarg, wpc, disp,
                   panicked, ret, first, active, clock, events, relayed, lvars>>

\* Client.AcceptFileTransfer: file-accepted to the sender, the notice to c
AcceptNotify(c) ==
    /\ ~panicked
    /\ rpc[c] = "accept_notify"
    /\ wire' = directSends(<<
          <<xfer[farg[c].t].Sender, FileAcceptedMsg(farg[c].t)>>,
          <<c, ServerText("File transfer accepted. Receiving file...")>> >>)
    /\ events' = Logged(farg[c].t, "file-accepted")
    /\ UNCHANGED <<relayed, lvars>>
    /\ rpc' = [rpc EXCEPT ![c] = "read"]
    /\ farg' = [farg EXCEPT ![c] = NoFile]
    /\ UNCHANGED <<clients, rooms, members, users, send, closes, username,
                   authenticated, currentRoom, hpc, rarg, wpc, disp,
                   panicked, ret, first, xfer, active, clock>>

\* `/reject su`: Client.RejectFileTransfer up to its two notices
Reject(c, su) ==
    /\ ~panicked
    /\ rpc[c] = "read"
    /\ ConnOpen(c)
    /\ \/ /\ ~authenticated[c]
          /\ wire' = directSend(c, LoginFirst)
          /\ UNCHANGED <<xfer, rpc, farg, events, relayed, lvars>>
       \/ /\ authenticated[c]
          /\ PendingFrom(c, su) = {}
          /\ wire' = directSend(c, NoPendingMsg(su))
          /\ UNCHANGED <<xfer, rpc, farg, events, relayed, lvars>>
       \/ /\ authenticated[c]
          /\ \E t \in PendingFrom(c, su) :
                /\ xfer' = [xfer EXCEPT ![t].Status = "rejected"]
                /\ events' = Logged(t, "file-rejected")
                /\ UNCHANGED <<relayed, lvars>>
                /\ wire' = directSends(<<
                      <<xfer[t].Sender, FileRejectedMsg(t)>>,
                      <<c, ServerText("File transfer rejected.")>> >>)
                /\ farg' = [farg EXCEPT ![c] = [NoFile EXCEPT !.t = t]]
          /\ rpc' = [rpc EXCEPT ![c] = "reject_remove"]
    /\ UNCHANGED <<clients, rooms, members, users, send, closes, username,
                   authenticated, currentRoom, hpc, rarg, wpc, disp,
                   panicked, ret, first, active, clock>>

\* "Clean up": RemoveTransfer(transfer) at the end of RejectFileTransfer
RejectRemove(c) ==
    /\ ~panicked
    /\ rpc[c] = "reject_remove"
    /\ active' = RemoveTransfer(farg[c].t)
    /\ rpc' = [rpc EXCEPT ![c] = "read"]
    /\ farg' = [farg EXCEPT ![c] = NoFile]
    /\ wire' = Silent
    /\ UNCHANGED <<clients, rooms, members, users, send, closes, username,
                   authenticated, currentRoom, hpc, rarg, wpc, disp,
                   panicked, ret, first, xfer, clock>>
    /\ UNCHANGED <<events, relayed, lvars>>

\* readPump's loop over activeTransfers: the values isLastChunk can take
LastChunk(c, d) ==
    IF \A t \in Registry : ~(xfer[t].Sender = c /\ xfer[t].Status = "accepted")
    THEN {FALSE}
    ELSE {xfer[t].ReceivedSize + Len(d) >= xfer[t].FileSize :
            t \in {x \in Registry : xfer[x].Sender = c /\ xfer[x].Status = "accepted"}}

\* a JSON line of Type "file-chunk": the isLastChunk loop of readPump
Chunk(c, f, d) ==
    /\ ~panicked
    /\ rpc[c] = "read"
    /\ ConnOpen(c)
    /\ \E last \in LastChunk(c, d) :
          farg' = [farg EXCEPT ![c] = [NoFile EXCEPT !.f = f, !.d = d, !.last = last]]
    /\ rpc' = [rpc EXCEPT ![c] = "chunk_find"]
    /\ wire' = Silent
    /\ UNCHANGED <<clients, rooms, members, users, send, closes, username,
                   authenticated, currentRoom, hpc, rarg, wpc, disp,
                   panicked, ret, first, xfer, active, clock>>
    /\ UNCHANGED <<events, relayed, lvars>>

\* mutant: the test t.Status == "accepted" is missing
AcceptedOf_AnyStatus(c, f) ==
    {t \in Registry : /\ xfer[t].Sender = c
                      /\ xfer[t].FileName = f}

\* the transfers the loop of ProcessFileTransfer can stop at
AcceptedOf(c, f) ==
    {t \in Registry : /\ xfer[t].Sender = c
                      /\ xfer[t].FileName = f
                      /\ xfer[t].Status = "accepted"}

\* ProcessFileTransfer: the lookup, and the relay to the receiver
ChunkFind(c) ==
    /\ ~panicked
    /\ rpc[c] = "chunk_find"
    /\ \/ /\ AcceptedOf(c, farg[c].f) = {}
          /\ wire' = directSend(c, NoActiveMsg)
          /\ rpc' = [rpc EXCEPT ![c] = "read"]
          /\ farg' = [farg EXCEPT ![c] = NoFile]
          /\ UNCHANGED <<events, relayed, lvars>>
       \/ \E t \in AcceptedOf(c, farg[c].f) :
             /\ wire' = directSend(xfer[t].Receiver,
                                   FileChunkMsg(c, farg[c].f, farg[c].d))
             /\ rpc' = [rpc EXCEPT ![c] = "chunk_update"]
             /\ farg' = [farg EXCEPT ![c].t = t]
             /\ events' = Logged(t, "file-chunk")
             /\ relayed' = IF ConnOpen(xfer[t].Receiver)
                           THEN [relayed EXCEPT ![t] = Append(@, farg[c].d)]
                           ELSE relayed
             /\ UNCHANGED lvars
    /\ UNCHANGED <<clients, rooms, members, users, send, closes, username,
                   authenticated, currentRoom, hpc, rarg, wpc, disp,
                   panicked, ret, first, xfer, active, clock>>

\* ProcessFileTransfer: "Update progress" and the progress notice
ChunkUpdate(c) ==
    /\ ~panicked
    /\ rpc[c] = "chunk_update"
    /\ LET t == farg[c].t
           received == xfer[t].ReceivedSize + Len(farg[c].d)
           size == xfer[t].FileSize
       IN /\ xfer' = [xfer EXCEPT ![t].ReceivedSize = received]
          /\ wire' = IF received % (size \div 10 + 1) = 0 \/ farg[c].last
                     THEN directSend(c, ServerText("Transfer progress: "
                                                   \o Percent(received, size)))
                     ELSE Silent
          /\ IF farg[c].last \/ received >= size
             THEN /\ rpc' = [rpc EXCEPT ![c] = "chunk_complete"]
                  /\ UNCHANGED farg
             ELSE /\ rpc' = [rpc EXCEPT ![c] = "read"]
                  /\ farg' = [farg EXCEPT ![c] = NoFile]
    /\ UNCHANGED <<clients, rooms, members, users, send, closes, username,
                   authenticated, currentRoom, hpc, rarg, wpc, disp,
                   panicked, ret, first, active, clock>>
    /\ UNCHANGED <<events, relayed, lvars>>

\* ProcessFileTransfer: UpdateTransferStatus(transfer, "complete"), notices
ChunkComplete(c) ==
    /\ ~panicked
    /\ rpc[c] = "chunk_complete"
    /\ LET t == farg[c].t
       IN /\ xfer' = [xfer EXCEPT ![t].Status = "complete"]
          /\ wire' = directSends(<<
                <<c, ServerText("File " \o farg[c].f \o " transferred successfully to "
                                \o username[xfer[t].Receiver])>>,
                <<xfer[t].Receiver,
                  Message("Server", "", "File " \o farg[c].f
                          \o " received successfully from " \o username[c],
                          "file-complete")>> >>)
          /\ events' = Logged(t, "file-complete")
          /\ UNCHANGED <<relayed, lvars>>
    /\ rpc' = [rpc EXCEPT ![c] = "chunk_remove"]
    /\ UNCHANGED <<clients, rooms, members, users, send, closes, username,
                   authenticated, currentRoom, hpc, rarg, wpc, disp,
                   panicked, ret, first, active, clock, farg>>

\* ProcessFileTransfer: "Clean up", RemoveTransfer(transfer)
ChunkRemove(c) ==
    /\ ~panicked
    /\ rpc[c] = "chunk_remove"
    /\ active' = RemoveTransfer(farg[c].t)
    /\ rpc' = [rpc EXCEPT ![c] = "read"]
    /\ farg' = [farg EXCEPT ![c] = NoFile]
    /\ wire' = Silent
    /\ UNCHANGED <<clients, rooms, members, users, send, closes, username,
                   authenticated, currentRoom, hpc, rarg, wpc, disp,
                   panicked, ret, first, xfer, clock>>
    /\ UNCHANGED <<events, relayed, lvars>>

\* ------------------------------------ Client.handleCommand: /rooms, /users
\* the lists a loop over the keys S of a map can build, in any order
RECURSIVE Listings(_)
Listings(S) ==
    IF S = {} THEN {""}
    ELSE UNION {{"- " \o x \o "\n" \o rest : rest \in Listings(S \ {x})} : x \in S}

\* the user lists a loop over the member set S can build
RECURSIVE UserListings(_)
UserListings(S) ==
    IF S = {} THEN {""}
    ELSE UNION {{"- " \o username[x] \o "\n" \o rest :
                    rest \in UserListings(S \ {x})} : x \in S}

\* `/rooms`
Rooms(c) ==
    /\ ~panicked
    /\ rpc[c] = "read"
    /\ ConnOpen(c)
    /\ IF ~authenticated[c]
       THEN wire' = directSend(c, LoginFirst)
       ELSE \E l \in Listings(rooms) :
               wire' = directSend(c, ServerText("Available rooms:\n" \o l))
    /\ UNCHANGED <<clients, rooms, members, users, send, closes, username,
                   authenticated, currentRoom, hpc, rpc, rarg, wpc, disp,
                   panicked, ret, first, xfer, active, clock, farg>>
    /\ UNCHANGED <<events, relayed, lvars>>

\* `/users`
Users(c) ==
    /\ ~panicked
    /\ rpc[c] = "read"
    /\ ConnOpen(c)
    /\ IF ~authenticated[c]
       THEN wire' = directSend(c, LoginFirst)
       ELSE IF currentRoom[c] = ""
       THEN wire' = directSend(c, ServerText("You are not in any room"))
       ELSE IF currentRoom[c] \notin rooms
       THEN wire' = directSend(c, ServerText("Room not found"))
       ELSE \E l \in UserListings(members[currentRoom[c]]) :
               wire' = directSend(c, ServerText("Users in room "
                                     \o currentRoom[c] \o ":\n" \o l))
    /\ UNCHANGED <<clients, rooms, members, users, send, closes, username,
                   authenticated, currentRoom, hpc, rpc, rarg, wpc, disp,
                   panicked, ret, first, xfer, active, clock, farg>>
    /\ UNCHANGED <<events, relayed, lvars>>

\* ------------------------------------------ Client.handleCommand: dispatch
\* parts[i], or "" when the line has fewer tokens
Arg(parts, i) == IF i <= Len(parts) THEN parts[i] ELSE ""

\* strconv.ParseInt(tok, 10, 64) for the decimal tokens of -MaxSize..MaxSize:
\* every other token is an error
ParseInt(tok) ==
    IF \E n \in 0..MaxSize : tok = Itoa(n)
    THEN [err |-> FALSE, n |-> CHOOSE n \in 0..MaxSize : tok = Itoa(n)]
    ELSE IF \E n \in 1..MaxSize : tok = "-" \o Itoa(n)
    THEN [err |-> FALSE, n |-> 0 - (CHOOSE n \in 1..MaxSize : tok = "-" \o Itoa(n))]
    ELSE [err |-> TRUE, n |-> 0]

\* a branch of handleCommand that writes one notice to c and returns
Notice(c, text) ==
    /\ ~panicked
    /\ rpc[c] = "read"
    /\ ConnOpen(c)
    /\ wire' = directSend(c, ServerText(text))
    /\ UNCHANGED <<clients, rooms, members, users, send, closes, username,
                   authenticated, currentRoom, hpc, rpc, rarg, wpc, disp,
                   panicked, ret, first>>
    /\ UNCHANGED <<xvars, lvars>>

\* the pending transfers addressed to c
PendingFor(c) ==
    {t \in Registry : xfer[t].Receiver = c /\ xfer[t].Status = "pending"}

\* `/accept` without a name: the loop that picks the sender of a pending
\* transfer addressed to c
AcceptAny(c) ==
    /\ ~panicked
    /\ rpc[c] = "read"
    /\ ConnOpen(c)
    /\ authenticated[c]
    /\ IF PendingFor(c) = {}
       THEN /\ wire' = directSend(c, ServerText(
                    "No pending file transfers. Usage: /accept username"))
            /\ UNCHANGED <<rpc, farg>>
       ELSE /\ \E t \in PendingFor(c) :
                  farg' = [farg EXCEPT ![c] =
                              [NoFile EXCEPT !.u = username[xfer[t].Sender]]]
            /\ rpc' = [rpc EXCEPT ![c] = "accept_find"]
            /\ wire' = Silent
    /\ UNCHANGED <<clients, rooms, members, users, send, closes, username,
                   authenticated, currentRoom, hpc, rarg, wpc, disp,
                   panicked, ret, first, xfer, active, clock, events, relayed, lvars>>

\* `/accept` without a name: AcceptFileTransfer(senderUsername) up to its
\* notices
AcceptFind(c) ==
    /\ ~panicked
    /\ rpc[c] = "accept_find"
    /\ IF PendingFrom(c, farg[c].u) = {}
       THEN /\ wire' = directSend(c, NoPendingMsg(farg[c].u))
            /\ rpc' = [rpc EXCEPT ![c] = "read"]
            /\ farg' = [farg EXCEPT ![c] = NoFile]
            /\ UNCHANGED xfer
       ELSE /\ \E t \in PendingFrom(c, farg[c].u) :
                  /\ xfer' = [xfer EXCEPT ![t].Status = "accepted"]
                  /\ farg' = [farg EXCEPT ![c] = [NoFile EXCEPT !.t = t]]
            /\ rpc' = [rpc EXCEPT ![c] = "accept_notify"]
            /\ wire' = Silent
    /\ UNCHANGED <<clients, rooms, members, users, send, closes, username,
                   authenticated, currentRoom, hpc, rarg, wpc, disp,
                   panicked, ret, first, active, clock, events, relayed, lvars>>

\* handleCommand(cmd) with parts = strings.Fields(cmd): the switch on
\* parts[0] with the length and parse tests of each case
handleCommand(c, parts) ==
    CASE parts[1] = "/login" ->
            IF Len(parts) # 3
            THEN Notice(c, "Usage: /login username password")
            ELSE Login(c, parts[2], parts[3])
      [] parts[1] = "/join" ->
            IF authenticated[c] /\ Len(parts) # 2
            THEN Notice(c, "Usage: /join roomname")
            ELSE Join(c, Arg(parts, 2))
      [] parts[1] = "/rooms" -> Rooms(c)
      [] parts[1] = "/users" -> Users(c)
      [] parts[1] = "/sendfile" ->
            IF authenticated[c] /\ Len(parts) < 4
            THEN Notice(c, "Usage: /sendfile username filename filesize")
            ELSE IF authenticated[c] /\ ParseInt(parts[4]).err
            THEN Notice(c, "Invalid file size")
            ELSE SendFile(c, Arg(parts, 2), Arg(parts, 3), ParseInt(Arg(parts, 4)).n)
      [] parts[1] = "/accept" ->
            IF authenticated[c] /\ Len(parts) < 2
            THEN AcceptAny(c)
            ELSE Accept(c, Arg(parts, 2))
      [] parts[1] = "/reject" ->
            IF authenticated[c] /\ Len(parts) < 2
            THEN Notice(c, "Usage: /reject username")
            ELSE Reject(c, Arg(parts, 2))
      [] OTHER -> Notice(c, "Unknown command: " \o parts[1])

\* ------------------------------------- map accesses outside their mutex
\* the next step of readPump c reads the map s.rooms without s.mutex:
\* rooms["general"] of /login, rooms[c.currentRoom] and rooms[roomName] of
\* /join
RoomsReadUnlocked(c) ==
    \/ rpc[c] = "login_add"
    \/ rpc[c] = "join_leave" /\ currentRoom[c] # ""
    \/ rpc[c] = "join_add"

\* the next step of readPump d can be the write rooms[roomName] = NewRoom
\* of a /join that names a room not yet in the table
RoomsWritten(d) ==
    /\ rpc[d] = "read"
    /\ ConnOpen(d)
    /\ authenticated[d]
    /\ rooms # RoomNames

\* the next step of readPump c can be the loop over activeTransfers that
\* computes isLastChunk, without transferMutex
TransfersReadUnlocked(c) == rpc[c] = "read" /\ ConnOpen(c)

\* the next step of readPump d writes the map activeTransfers
TransfersWritten(d) ==
    \/ /\ rpc[d] = "sendfile_init"
       /\ ~InitiateRefused(d, farg[d].to, farg[d].f, farg[d].n)
       /\ ~InitiateRefreshes(d, farg[d].to, farg[d].f)
    \/ rpc[d] \in {"reject_remove", "chunk_remove"}

\* two goroutines can access one map at once, one of them writing it and
\* the other outside the mutex
MapRace ==
    \E c, d \in Clients :
        /\ c # d
        /\ \/ RoomsReadUnlocked(c) /\ RoomsWritten(d)
           \/ TransfersReadUnlocked(c) /\ TransfersWritten(d)

\* the runtime notices the concurrent map access: "fatal error: concurrent
\* map read and map write" (or "map iteration and map write")
MapFatal ==
    /\ ~panicked
    /\ MapRace
    /\ panicked' = TRUE
    /\ wire' = Silent
    /\ UNCHANGED <<clients, rooms, members, users, send, closes, username,
                   authenticated, currentRoom, hpc, rpc, rarg, wpc, disp,
                   ret, first>>
    /\ UNCHANGED <<xvars, lvars>>

\* ------------------------------------------- the Room type, called directly
\* `c.username = username; c.authenticated = true` of a successful /login
SessionLogin(c, u) ==
    /\ ~authenticated[c]
    /\ username' = [username EXCEPT ![c] = u]
    /\ authenticated' = [authenticated EXCEPT ![c] = TRUE]
    /\ wire' = Silent
    /\ UNCHANGED <<clients, rooms, members, users, send, closes, currentRoom,
                   hpc, rpc, rarg, wpc, disp, panicked, ret, first>>
    /\ UNCHANGED <<xvars, lvars>>

RoomAddClient(r, c) ==
    /\ members' = AddClientMembers(r, c)
    /\ wire' = AddClientWire(r, c)
    /\ UNCHANGED <<clients, rooms, users, send, closes, username,
                   authenticated, currentRoom, hpc, rpc, rarg, wpc, disp,
                   panicked, ret, first>>
    /\ UNCHANGED <<xvars, lvars>>

RoomRemoveClient(r, c) ==
    /\ members' = RemoveClientMembers(r, c)
    /\ wire' = RemoveClientWire(r, c)
    /\ UNCHANGED <<clients, rooms, users, send, closes, username,
                   authenticated, currentRoom, hpc, rpc, rarg, wpc, disp,
                   panicked, ret, first>>
    /\ UNCHANGED <<xvars, lvars>>

RoomBroadcast(r, m) ==
    /\ wire' = BroadcastWire(r, m)
    /\ UNCHANGED <<clients, rooms, members, users, send, closes, username,
                   authenticated, currentRoom, hpc, rpc, rarg, wpc, disp,
                   panicked, ret, first>>
    /\ UNCHANGED <<xvars, lvars>>

\* --------------------------------- the credential store, called directly
CallRegister(u, p) ==
    /\ ret' = [op |-> "register", u |-> u, p |-> p, ok |-> RegisterUser(u, p)]
    /\ users' = RegisteredUsers(u, p)
    /\ first' = FirstSecrets(u, p)
    /\ wire' = Silent
    /\ UNCHANGED <<clients, rooms, members, send, closes, username,
                   authenticated, currentRoom, hpc, rpc, rarg, wpc, disp,
                   panicked>>
    /\ UNCHANGED <<xvars, lvars>>

CallAuthenticate(u, p) ==
    /\ ret' = [op |-> "authenticate", u |-> u, p |-> p, ok |-> AuthenticateUser(u, p)]
    /\ wire' = Silent
    /\ UNCHANGED <<clients, rooms, members, users, send, closes, username,
                   authenticated, currentRoom, hpc, rpc, rarg, wpc, disp,
                   panicked, first>>
    /\ UNCHANGED <<xvars, lvars>>

\* ------------------------------------------------------------ specification
\* The peer sends its next line only while at most MaxBacklog messages wait
\* in its outbound queue.
Paced(c) == Len(send[c]) <= MaxBacklog

\* Spec: MaxLive sessions; every goroutine step interleaves freely.
Next ==
    \/ \E c \in Live : Connect(c)
    \/ \E c \in Live : Welcome(c)
    \/ DispatchRegister
    \/ DispatchUnregister
    \/ DispatchRoomBroadcast
    \/ \E c \in Live : Disconnect(c)
    \/ \E c \in Live : Unregister(c)
    \/ \E c \in Live : Paced(c) /\ Chat(c)
    \/ \E c \in Live : ChatSend(c)
    \/ \E c \in Live, u \in Usernames : Paced(c) /\ Login(c, u, "p1")
    \/ \E c \in Live : LoginRegister(c)
    \/ \E c \in Live : LoginAdd(c)
    \/ \E c \in Live, r \in RoomNames : Paced(c) /\ Join(c, r)
    \/ \E c \in Live : JoinLeave(c)
    \/ \E c \in Live : JoinAdd(c)
    \/ \E c \in Live : JoinConfirm(c)
    \/ \E c \in Live : Write(c)
    \/ \E c \in Live : WriteEnd(c)
    \/ MapFatal

Spec == Init /\ [][Next]_vars

\* SpecSat: the peer of session 1 has stopped reading and keeps sending
\* (no pacing, writePump 1 stays blocked in conn.Write), so the outbound
\* queue of session 1 fills; session c logs in as NameOf(c) and every /join
\* names "general".
NameOf(c) == IF c = 1 THEN "alice" ELSE "bob"

Slow(c) == c = 1 \/ Paced(c)

NextSat ==
    \/ \E c \in Live : Connect(c)
    \/ \E c \in Live : Welcome(c)
    \/ DispatchRegister
    \/ DispatchUnregister
    \/ DispatchRoomBroadcast
    \/ \E c \in Live : Disconnect(c)
    \/ \E c \in Live : Unregister(c)
    \/ \E c \in Live : Paced(c) /\ Chat(c)
    \/ \E c \in Live : ChatSend(c)
    \/ \E c \in Live : Slow(c) /\ Login(c, NameOf(c), "p1")
    \/ \E c \in Live : LoginRegister(c)
    \/ \E c \in Live : LoginAdd(c)
    \/ \E c \in Live : Slow(c) /\ Join(c, "general")
    \/ \E c \in Live : JoinLeave(c)
    \/ \E c \in Live : JoinAdd(c)
    \/ \E c \in Live : JoinConfirm(c)
    \/ \E c \in Live : c # 1 /\ Write(c)
    \/ \E c \in Live : WriteEnd(c)

SpecSat == Init /\ [][NextSat]_vars

\* SpecGlobal: as SpecSat without room chat, and messages with an empty
\* RoomName arrive on s.broadcast while some queue is full (no sender of the
\* package produces one: they are an input of handleMessages).
NextGlobal ==
    \/ \E c \in Live : Connect(c)
    \/ \E c \in Live : Welcome(c)
    \/ DispatchRegister
    \/ DispatchUnregister
    \/ \E c \in Live : Disconnect(c)
    \/ \E c \in Live : Unregister(c)
    \/ \E c \in Live : Slow(c) /\ Login(c, NameOf(c), "p1")
    \/ \E c \in Live : LoginRegister(c)
    \/ \E c \in Live : LoginAdd(c)
    \/ \E c \in Live : Slow(c) /\ Join(c, "general")
    \/ \E c \in Live : JoinLeave(c)
    \/ \E c \in Live : JoinAdd(c)
    \/ \E c \in Live : JoinConfirm(c)
    \/ \E c \in Live : c # 1 /\ Write(c)
    \/ \E c \in Live : WriteEnd(c)
    \/ (\E c \in Live : Len(send[c]) = QueueCap) /\ GlobalSend
    \/ DispatchGlobalBroadcast

SpecGlobal == Init /\ [][NextGlobal]_vars

\* SpecIO: connections, logins and chat with socket errors on either pump:
\* a read error (Disconnect) or a write error (WriteError) at any time.
NextIO ==
    \/ \E c \in Live : Connect(c)
    \/ \E c \in Live : Welcome(c)
    \/ DispatchRegister
    \/ DispatchUnregister
    \/ DispatchRoomBroadcast
    \/ \E c \in Live : Disconnect(c)
    \/ \E c \in Live : Unregister(c)
    \/ \E c \in Live : Chat(c)
    \/ \E c \in Live : ChatSend(c)
    \/ \E c \in Live : Paced(c) /\ Login(c, NameOf(c), "p1")
    \/ \E c \in Live : LoginRegister(c)
    \/ \E c \in Live : LoginAdd(c)
    \/ \E c \in Live : Write(c)
    \/ \E c \in Live : WriteError(c)
    \/ \E c \in Live : WriteEnd(c)

SpecIO == Init /\ [][NextIO]_vars

\* SpecLogin: /login with every username and password, from MaxLive
\* sessions whose commands interleave step by step.
NextLogin ==
    \/ \E c \in Live : Connect(c)
    \/ DispatchRegister
    \/ \E c \in Live, u \in Usernames, p \in Passwords : Login(c, u, p)
    \/ \E c \in Live : LoginRegister(c)
    \/ \E c \in Live : LoginAdd(c)

SpecLogin == Init /\ [][NextLogin]_vars

\* SpecFile: each session logs in once, as NameOf(c); session 1 is the
\* sending peer (it alone issues /sendfile and file-chunk lines, to either
\* name, itself included), every session answers with /accept and /reject;
\* all steps interleave and InitiateFileTransfer is called at most MaxSends
\* times.
NextFile ==
    \/ \E c \in Live : Connect(c)
    \/ DispatchRegister
    \/ \E c \in Live : ~authenticated[c] /\ Login(c, NameOf(c), "p1")
    \/ \E c \in Live : LoginRegister(c)
    \/ \E c \in Live : LoginAdd(c)
    \/ \E u \in Usernames, f \in FileNames, n \in FileSizes :
          clock < MaxSends /\ SendFile(1, u, f, n)
    \/ \E c \in Live : SendFileInit(c)
    \/ \E c \in Live : SendFileNotify(c)
    \/ \E c \in Live, u \in Usernames : Accept(c, u)
    \/ \E c \in Live : AcceptNotify(c)
    \/ \E c \in Live, u \in Usernames : Reject(c, u)
    \/ \E c \in Live : RejectRemove(c)
    \/ \E f \in FileNames, d \in Chunks : Chunk(1, f, d)
    \/ \E c \in Live : ChunkFind(c)
    \/ \E c \in Live : ChunkUpdate(c)
    \/ \E c \in Live : ChunkComplete(c)
    \/ \E c \in Live : ChunkRemove(c)
    \/ MapFatal

SpecFile == Init /\ [][NextFile]_vars

\* SpecGone: session 1 (alice) sends file "f" to bob and relays chunks;
\* session 2 (bob) accepts, and its connection may drop at any time.
NextGone ==
    \/ \E c \in Live : Connect(c)
    \/ DispatchRegister
    \/ DispatchUnregister
    \/ \E c \in Live : ~authenticated[c] /\ Login(c, NameOf(c), "p1")
    \/ \E c \in Live : LoginRegister(c)
    \/ \E c \in Live : LoginAdd(c)
    \/ \E n \in FileSizes : clock < MaxSends /\ SendFile(1, "bob", "f", n)
    \/ SendFileInit(1)
    \/ SendFileNotify(1)
    \/ Accept(2, "alice")
    \/ AcceptNotify(2)
    \/ \E d \in Chunks : Chunk(1, "f", d)
    \/ ChunkFind(1)
    \/ ChunkUpdate(1)
    \/ ChunkComplete(1)
    \/ ChunkRemove(1)
    \/ Disconnect(2)
    \/ Unregister(2)
    \/ \E c \in Live : WriteEnd(c)

SpecGone == Init /\ [][NextGone]_vars

\* SpecKey: two sessions whose usernames contain the separator of the
\* registry key, "a" and "a_a"; each logs in once and offers file "f" to
\* either name, and answers with /accept.
KeyName(c) == IF c = 1 THEN "a" ELSE "a_a"

NextKey ==
    \/ \E c \in Live : Connect(c)
    \/ DispatchRegister
    \/ \E c \in Live : ~authenticated[c] /\ Login(c, KeyName(c), "p1")
    \/ \E c \in Live : LoginRegister(c)
    \/ \E c \in Live : LoginAdd(c)
    \/ \E c, d \in Live, n \in FileSizes :
          clock < MaxSends /\ SendFile(c, KeyName(d), "f", n)
    \/ \E c \in Live : SendFileInit(c)
    \/ \E c \in Live : SendFileNotify(c)
    \/ \E c, d \in Live : Accept(c, KeyName(d))
    \/ \E c \in Live : AcceptNotify(c)

SpecKey == Init /\ [][NextKey]_vars

\* ------------------------------------------------------ the lock protocol
\* everything but the mutexes
svars ==
    <<clients, rooms, members, users, send, closes, username, authenticated,
      currentRoom, hpc, rpc, rarg, wpc, disp, wire, panicked, ret, first>>

\* the goroutine g takes the next event or line: the handler h starts
Begin(g, h) ==
    /\ todo[g] = <<>>
    /\ todo' = [todo EXCEPT ![g] = h]
    /\ UNCHANGED <<holder, svars, xvars>>

\* l.Lock() returns: the mutex was free
Acquire(g) ==
    /\ todo[g] # <<>>
    /\ Head(todo[g]).op = "Lock"
    /\ holder[Head(todo[g]).l] = Free
    /\ holder' = [holder EXCEPT ![Head(todo[g]).l] = g]
    /\ todo' = [todo EXCEPT ![g] = Tail(@)]
    /\ UNCHANGED <<svars, xvars>>

\* l.Unlock()
Release(g) ==
    /\ todo[g] # <<>>
    /\ Head(todo[g]).op = "Unlock"
    /\ holder' = [holder EXCEPT ![Head(todo[g]).l] = Free]
    /\ todo' = [todo EXCEPT ![g] = Tail(@)]
    /\ UNCHANGED <<svars, xvars>>

\* the conn.Write calls of a critical section return
WriteReturns(g) ==
    /\ todo[g] # <<>>
    /\ Head(todo[g]).op = "Write"
    /\ todo' = [todo EXCEPT ![g] = Tail(@)]
    /\ UNCHANGED <<holder, svars, xvars>>

\* SpecLock: the dispatcher and the readPumps run their handlers in any
\* order and interleaving, seen as the lock operations they execute.  A
\* goroutine that can go on does (WF); a goroutine waiting in Lock gets the
\* mutex if it is free again and again (SF: a sync.Mutex hands the lock to
\* a waiter that has waited long, starvation mode).  Which events and lines
\* arrive is up to the peers: no fairness on Begin.
NextLock ==
    \/ \E g \in Goroutines : \E h \in Handlers(g) : Begin(g, h)
    \/ \E g \in Goroutines : Acquire(g)
    \/ \E g \in Goroutines : Release(g)
    \/ \E g \in Goroutines : WriteReturns(g)

FairLock ==
    \A g \in Goroutines :
        /\ SF_vars(Acquire(g))
        /\ WF_vars(Release(g))
        /\ WF_vars(WriteReturns(g))

SpecLock == Init /\ [][NextLock]_vars /\ FairLock

\* SpecRename: as SpecFile without file-chunk lines and with declared size
\* 1 only, and a session may log in again, under either name, at any time.
NextRename ==
    \/ \E c \in Live : Connect(c)
    \/ DispatchRegister
    \/ \E c \in Live, u \in Usernames : Login(c, u, "p1")
    \/ \E c \in Live : LoginRegister(c)
    \/ \E c \in Live : LoginAdd(c)
    \/ \E u \in Usernames, f \in FileNames :
          clock < MaxSends /\ SendFile(1, u, f, 1)
    \/ \E c \in Live : SendFileInit(c)
    \/ \E c \in Live : SendFileNotify(c)
    \/ \E c \in Live, u \in Usernames : Accept(c, u)
    \/ \E c \in Live : AcceptNotify(c)
    \/ \E c \in Live, u \in Usernames : Reject(c, u)
    \/ \E c \in Live : RejectRemove(c)

SpecRename == Init /\ [][NextRename]_vars

\* SpecMove: one transfer of file "f" with declared size 1 from session 1,
\* accepted and relayed in one chunk, while every session may log in
\* again, under either name, at any time.
NextMove ==
    \/ \E c \in Live : Connect(c)
    \/ DispatchRegister
    \/ \E c \in Live, u \in Usernames : Login(c, u, "p1")
    \/ \E c \in Live : LoginRegister(c)
    \/ \E c \in Live : LoginAdd(c)
    \/ \E u \in Usernames : xfer = <<>> /\ SendFile(1, u, "f", 1)
    \/ \E c \in Live : SendFileInit(c)
    \/ \E c \in Live : SendFileNotify(c)
    \/ \E c \in Live, u \in Usernames : Accept(c, u)
    \/ \E c \in Live : AcceptNotify(c)
    \/ Chunk(1, "f", <<7>>)
    \/ \E c \in Live : ChunkFind(c)
    \/ \E c \in Live : ChunkUpdate(c)
    \/ \E c \in Live : ChunkComplete(c)
    \/ \E c \in Live : ChunkRemove(c)

SpecMove == Init /\ [][NextMove]_vars

\* SpecCmd: command lines as token sequences, well formed and not, from two
\* sessions; session c logs in once, as NameOf(c); session 1 alone issues
\* /sendfile, at most MaxSends times with an argument list that reaches
\* InitiateFileTransfer.
Lines ==
    {<<"/login", "alice", "p1">>, <<"/login", "bob", "p1">>,
     <<"/login", "alice">>, <<"/login", "alice", "p1", "x">>,
     <<"/join", "lobby">>, <<"/join">>, <<"/join", "lobby", "x">>,
     <<"/rooms">>, <<"/rooms", "x">>, <<"/users">>,
     <<"/sendfile", "bob", "f", "1">>, <<"/sendfile", "bob", "f", "2">>,
     <<"/sendfile", "bob", "f">>, <<"/sendfile", "bob", "f", "x">>,
     <<"/sendfile", "bob", "f", "0">>, <<"/sendfile", "bob", "f", "-1">>,
     <<"/sendfile", "carol", "f", "1">>, <<"/sendfile", "bob", "f", "1", "x">>,
     <<"/accept">>, <<"/accept", "alice">>, <<"/accept", "alice", "x">>,
     <<"/reject">>, <<"/reject", "alice">>, <<"/reject", "alice", "x">>,
     <<"/nope">>, <<"/nope", "x">>}

LineAllowed(c, parts) ==
    /\ Paced(c)
    /\ parts[1] = "/login" /\ Len(parts) = 3 =>
          ~authenticated[c] /\ parts[2] = NameOf(c)
    /\ parts[1] = "/sendfile" => c = 1
    /\ parts[1] = "/sendfile" /\ Len(parts) >= 4 => clock < MaxSends

NextCmd ==
    \/ \E c \in Live : Connect(c)
    \/ DispatchRegister
    \/ \E c \in Live, parts \in Lines :
          LineAllowed(c, parts) /\ handleCommand(c, parts)
    \/ \E c \in Live : LoginRegister(c)
    \/ \E c \in Live : LoginAdd(c)
    \/ \E c \in Live : JoinLeave(c)
    \/ \E c \in Live : JoinAdd(c)
    \/ \E c \in Live : JoinConfirm(c)
    \/ \E c \in Live : SendFileInit(c)
    \/ \E c \in Live : SendFileNotify(c)
    \/ \E c \in Live : AcceptFind(c)
    \/ \E c \in Live : AcceptNotify(c)
    \/ \E c \in Live : RejectRemove(c)
    \/ \E c \in Live : Write(c)

SpecCmd == Init /\ [][NextCmd]_vars

\* SpecStall: session c logs in once, as NameOf(c), sessions chat in
\* general and disconnect; the peer of session 1 may stop reading for good,
\* after which every conn.Write to its socket blocks.  Scheduling is fair:
\* every goroutine that can take a step eventually takes it (WF), and a
\* goroutine blocked on a channel send gets through if the dispatcher is
\* ready for it again and again (SF: select picks among the ready cases at
\* random).  The peers are not scheduled: no fairness on their lines,
\* disconnects or stalls.
NextStall ==
    \/ \E c \in Live : Connect(c)
    \/ \E c \in Live : Welcome(c)
    \/ DispatchRegister
    \/ DispatchUnregister
    \/ DispatchRoomBroadcast /\ Writable
    \/ \E c \in Live : Disconnect(c)
    \/ \E c \in Live : Unregister(c)
    \/ \E c \in Live : Paced(c) /\ Chat(c) /\ Writable
    \/ \E c \in Live : ChatSend(c)
    \/ \E c \in Live :
          Paced(c) /\ ~authenticated[c] /\ Login(c, NameOf(c), "p1") /\ Writable
    \/ \E c \in Live : LoginRegister(c) /\ Writable
    \/ \E c \in Live : LoginAdd(c) /\ Writable
    \/ \E c \in Live : Write(c)
    \/ WriteBlock(1)
    \/ \E c \in Live : WriteFail(c)
    \/ \E c \in Live : WriteEnd(c)

FairStall ==
    /\ WF_vars(DispatchRegister)
    /\ WF_vars(DispatchUnregister)
    /\ WF_vars(DispatchRoomBroadcast /\ Writable)
    /\ \A c \in Live :
          /\ WF_vars(Welcome(c))
          /\ SF_vars(Unregister(c))
          /\ SF_vars(ChatSend(c))
          /\ WF_vars(LoginRegister(c) /\ Writable)
          /\ WF_vars(LoginAdd(c) /\ Writable)
          /\ WF_vars(Write(c))
          /\ WF_vars(WriteFail(c))
          /\ WF_vars(WriteEnd(c))

SpecStall == Init /\ [][NextStall]_vars /\ FairStall

\* SpecAnon: session 1 logs in as alice, session 2 never logs in; both send
\* chat lines and every command, before and after the login of session 1;
\* every /sendfile names file "f" with size 1.
NextAnon ==
    \/ \E c \in Live : Connect(c)
    \/ DispatchRegister
    \/ DispatchRoomBroadcast
    \/ Paced(1) /\ Login(1, "alice", "p1")
    \/ \E c \in Live : LoginRegister(c)
    \/ \E c \in Live : LoginAdd(c)
    \/ \E c \in Live : Paced(c) /\ Chat(c)
    \/ \E c \in Live : ChatSend(c)
    \/ \E c \in Live, r \in RoomNames : Paced(c) /\ Join(c, r)
    \/ \E c \in Live : JoinLeave(c)
    \/ \E c \in Live : JoinAdd(c)
    \/ \E c \in Live : JoinConfirm(c)
    \/ \E c \in Live : Paced(c) /\ Rooms(c)
    \/ \E c \in Live : Paced(c) /\ Users(c)
    \/ \E c \in Live, u \in Usernames :
          Paced(c) /\ clock < MaxSends /\ SendFile(c, u, "f", 1)
    \/ \E c \in Live : SendFileInit(c)
    \/ \E c \in Live : SendFileNotify(c)
    \/ \E c \in Live, u \in Usernames : Paced(c) /\ Accept(c, u)
    \/ \E c \in Live : AcceptNotify(c)
    \/ \E c \in Live, u \in Usernames : Paced(c) /\ Reject(c, u)
    \/ \E c \in Live : RejectRemove(c)
    \/ \E c \in Live : Write(c)

SpecAnon == Init /\ [][NextAnon]_vars

\* SpecRoom: the methods of Room applied to any room and any session, in
\* any order; sessions log in under either name at any time.
NextRoom ==
    \/ \E c \in Clients, u \in Usernames : SessionLogin(c, u)
    \/ \E r \in RoomNames, c \in Clients : RoomAddClient(r, c)
    \/ \E r \in RoomNames, c \in Clients : RoomRemoveClient(r, c)
    \/ \E r \in RoomNames, u \in Usernames : RoomBroadcast(r, ChatMsg(u, r))

SpecRoom == Init /\ [][NextRoom]_vars

\* SpecCred: RegisterUser and AuthenticateUser called with any arguments,
\* in any order (both run under s.mutex, so calls from different sessions
\* are serialized).
CredNames == {"alice", "bob", "carol"}
CredSecrets == {"p1", "p2", "wrong"}

NextCred ==
    \/ \E u \in CredNames, p \in CredSecrets : CallRegister(u, p)
    \/ \E u \in CredNames, p \in CredSecrets : CallAuthenticate(u, p)

SpecCred == Init /\ [][NextCred]_vars

\* ------------------------------------------------------------------ claims
RoomsOf(c) == {r \in RoomNames : c \in members[r]}

\* C1: every session is in the member set of at most one room, in every
\* state any sequence of /login and /join commands can reach.
C1_AtMostOneRoom == \A c \in Clients : Cardinality(RoomsOf(c)) <= 1

InJoinTransition(c) == rpc[c] \in {"join_leave", "join_add", "join_confirm"}

\* C2: outside a /join's leave-then-join transition, every session listed in
\* a room's member set has that room's name as its currentRoom.
C2_MemberHasCurrentRoom ==
    \A c \in Clients : \A r \in RoomNames :
        (c \in members[r] /\ ~InJoinTransition(c)) => currentRoom[c] = r

\* The step in which the dispatcher finishes the unregister of session c.
UnregisterHandled(c) ==
    /\ disp.kind = "unregister"
    /\ disp.client = c
    /\ disp' = Idle

\* C3: when the disconnection of a session has been handled, the session is
\* in the session set no longer, is in no room's member set, and every
\* remaining authenticated member of its former room has been sent
\* "<user> has left the room".
C3_DisconnectCleansUp ==
    [][\A c \in Clients : UnregisterHandled(c) =>
          /\ c \notin clients'
          /\ \A r \in RoomNames : c \notin members'[r]
          /\ \A r \in RoomsOf(c) : \A d \in members[r] \ {c} :
                authenticated[d] => wire'[d] = <<LeftMsg(r, username[c])>>]_vars

\* C5: no state in which the process has died of a panic is reachable.
C5_NoPanic == ~panicked

\* C4: a session's outbound queue is closed exactly once in its lifetime:
\* never twice, never while the session is in the session set, and once by
\* the time its unregister has been handled; the unregister of a session
\* that is already removed changes nothing and closes nothing.
C4_ClosedExactlyOnce ==
    [][/\ \A c \in Clients : closes'[c] <= 1
       /\ \A c \in clients' : closes'[c] = 0
       /\ \A c \in Clients : UnregisterHandled(c) =>
             /\ closes'[c] = 1
             /\ c \notin clients'
             /\ c \notin clients =>
                   UNCHANGED <<clients, closes, send, members, rooms>>]_vars

\* an unregister arrives for a session that global-broadcast saturation
\* handling has already closed and removed
C4_Witness ==
    /\ disp.kind = "unregister"
    /\ disp.client \notin clients
    /\ closes[disp.client] = 1
    /\ Len(send[disp.client]) = QueueCap

Full(c) == Len(send[c]) = QueueCap

\* a step that sends to session c while its outbound queue is full
SentToFull(c) ==
    \/ /\ rpc[c] = "join_confirm"
       /\ rpc'[c] = "read"
       /\ Full(c)
    \/ /\ disp.kind = "broadcast"
       /\ disp.msg.RoomName = ""
       /\ disp' = Idle
       /\ c \in clients /\ authenticated[c] /\ Full(c)

\* C6: whenever a message is sent to a session whose outbound queue is full,
\* the session is forcibly disconnected: its queue is closed and it is
\* removed from the session set and from every room's member set.
C6_FullQueueDisconnects ==
    [][\A c \in Clients : SentToFull(c) =>
          /\ closes'[c] > 0
          /\ c \notin clients'
          /\ \A r \in RoomNames : c \notin members'[r]]_vars

AuthMembers(r) == {d \in members[r] : authenticated[d]}

\* the dispatcher's step that broadcasts to room r
RoomBroadcastStep(r) ==
    /\ disp.kind = "broadcast"
    /\ disp.msg.RoomName = r
    /\ r \in rooms
    /\ disp' = Idle

\* C7: a broadcast to a room of N >= 2 authenticated members of which exactly
\* one has a full outbound queue enqueues the message on the queues of the
\* other N-1 and removes exactly the saturated member from the member set.
C7_BroadcastSkipsSaturated ==
    [][\A r \in RoomNames :
          (/\ RoomBroadcastStep(r)
           /\ Cardinality(AuthMembers(r)) >= 2
           /\ Cardinality({d \in AuthMembers(r) : Full(d)}) = 1) =>
              /\ \A d \in AuthMembers(r) :
                    ~Full(d) => send'[d] = Append(send[d], disp.msg)
              /\ members'[r] = members[r] \ {d \in AuthMembers(r) : Full(d)}]_vars

\* how many times the last step wrote message m to session d
Written(d, m) == Cardinality({i \in 1..Len(wire'[d]) : wire'[d][i] = m})

\* C8: Room join adds the session to the member set (and changes no other
\* membership) and writes "<user> has joined the room" exactly once to every
\* other authenticated member, and nothing to anyone else: not to the
\* joining session, not to unauthenticated members, not to non-members.
C8_JoinNotifiesOthers ==
    [][\A r \in RoomNames, c \in Clients : RoomAddClient(r, c) =>
          /\ members'[r] = members[r] \cup {c}
          /\ \A q \in RoomNames \ {r} : members'[q] = members[q]
          /\ wire'[c] = <<>>
          /\ \A d \in Clients \ {c} :
                IF d \in members[r] /\ authenticated[d]
                THEN Len(wire'[d]) = 1 /\ Written(d, JoinedMsg(r, username[c])) = 1
                ELSE wire'[d] = <<>>]_vars

\* session c has just joined r: authenticated member d was notified,
\* unauthenticated member e and c itself were not
C8_Witness ==
    \E r \in RoomNames : \E c, d, e \in Clients :
        /\ c # d /\ c # e /\ d # e
        /\ {c, d, e} \subseteq members[r]
        /\ authenticated[c] /\ authenticated[d] /\ ~authenticated[e]
        /\ wire[d] = <<JoinedMsg(r, username[c])>>
        /\ wire[c] = <<>>
        /\ wire[e] = <<>>

\* C9: Room leave of a member removes it and writes "<user> has left the
\* room" once to each remaining authenticated member and to nobody else;
\* leave of a non-member changes no member set and writes nothing.
C9_LeaveNotifiesRemaining ==
    [][\A r \in RoomNames, c \in Clients : RoomRemoveClient(r, c) =>
          IF c \in members[r]
          THEN /\ members'[r] = members[r] \ {c}
               /\ \A q \in RoomNames \ {r} : members'[q] = members[q]
               /\ \A d \in Clients :
                     IF d \in members[r] \ {c} /\ authenticated[d]
                     THEN Len(wire'[d]) = 1 /\ Written(d, LeftMsg(r, username[c])) = 1
                     ELSE wire'[d] = <<>>
          ELSE /\ members' = members
               /\ \A d \in Clients : wire'[d] = <<>>]_vars

\* session c has just left r: both remaining authenticated members were told
C9_Witness ==
    \E r \in RoomNames : \E c, d, e \in Clients :
        /\ c # d /\ c # e /\ d # e
        /\ c \notin members[r]
        /\ {d, e} \subseteq members[r]
        /\ authenticated[c] /\ authenticated[d] /\ authenticated[e]
        /\ wire[d] = <<LeftMsg(r, username[c])>>
        /\ wire[e] = <<LeftMsg(r, username[c])>>
        /\ wire[c] = <<>>

\* C10: RegisterUser(u, p) succeeds exactly when u has never been registered;
\* a failed RegisterUser leaves the store unchanged; AuthenticateUser(u, p)
\* is true exactly when p is the password of the first successful
\* registration of u (so it is false for an unknown username).
C10_FirstRegistrationWins ==
    [][\A u \in CredNames, p \in CredSecrets :
          /\ CallRegister(u, p) =>
                /\ ret'.ok <=> u \notin DOMAIN first
                /\ ~ret'.ok => users' = users
          /\ CallAuthenticate(u, p) =>
                ret'.ok <=> (u \in DOMAIN first /\ first[u] = p)]_vars

\* a second registration of a stored username with another password has
\* just failed and the identity is still the first one
C10_Witness ==
    /\ ret # Idle
    /\ ret.op = "register"
    /\ ~ret.ok
    /\ ret.u \in DOMAIN first
    /\ ret.p # first[ret.u]
    /\ users[ret.u] = NewUser(ret.u, first[ret.u])

\* the step that decides the /login whose AuthenticateUser has failed
LoginDecided(c) == rpc[c] = "login_reg" /\ rpc'[c] # "login_reg"

InvalidCredentials == ServerText("Invalid credentials")

\* C11: /login u p makes the session authenticated as u, and then a member
\* of general, exactly when p matches the stored secret of u or u is not
\* registered (u is then registered with p); when u is registered with a
\* different secret the session is sent "Invalid credentials" and its
\* username, authenticated flag and memberships are unchanged.
C11_LoginOutcome ==
    [][\A c \in Clients :
          /\ \A u \in Usernames, p \in Passwords :
                (Login(c, u, p) /\ AuthenticateUser(u, p)) =>
                    /\ username'[c] = u
                    /\ authenticated'[c]
                    /\ rpc'[c] = "login_add"
          /\ LoginDecided(c) =>
                IF \/ rarg[c].u \notin DOMAIN users
                   \/ CheckPassword(users[rarg[c].u], rarg[c].p)
                THEN /\ username'[c] = rarg[c].u
                     /\ authenticated'[c]
                     /\ rpc'[c] = "login_add"
                     /\ users'[rarg[c].u] = NewUser(rarg[c].u, rarg[c].p)
                ELSE /\ wire'[c] = <<InvalidCredentials>>
                     /\ username'[c] = username[c]
                     /\ authenticated'[c] = authenticated[c]
                     /\ members' = members
                     /\ users' = users
          /\ (rpc[c] = "login_add" /\ rpc'[c] = "read") =>
                c \in members'["general"]]_vars

\* C12: authentication is one-way: once the authenticated flag of a session
\* is true it is true in every later state, whatever the session sends,
\* failed /login attempts included.
C12_AuthenticatedStays ==
    [][\A c \in Clients : authenticated[c] => authenticated'[c]]_vars

\* an authenticated session has just had a /login refused and is still
\* authenticated under its earlier name
C12_Witness ==
    \E c \in Clients :
        /\ authenticated[c]
        /\ username[c] # ""
        /\ wire[c] = <<InvalidCredentials>>

\* a notice of the server to one session: no room, no user as its sender
SystemNotice(m) == m.Sender = "Server" /\ m.RoomName = "" /\ m.Type = "text"

\* C13: an unauthenticated session is in no room's member set, and every
\* message written to its socket or waiting in its outbound queue is a
\* system notice of the server: never a room chat, join or leave envelope.
C13_AnonymousOnlyNotices ==
    \A c \in Clients : ~authenticated[c] =>
        /\ \A r \in RoomNames : c \notin members[r]
        /\ \A i \in 1..Len(wire[c]) : SystemNotice(wire[c][i])
        /\ \A i \in 1..Len(send[c]) : SystemNotice(send[c][i])

\* a chat message has just been delivered in general while a connected
\* session that has not logged in got nothing
C13_Witness ==
    \E c, d \in Clients :
        /\ c # d
        /\ d \in clients /\ ~authenticated[d] /\ rpc[d] = "read"
        /\ c \in members["general"]
        /\ wire[c] # <<>> /\ wire[c][1].RoomName = "general"
        /\ wire[c][1].Sender # "Server"
        /\ wire[d] = <<>>

\* C15: the room table only grows: a room appears only in the first /join
\* of an authenticated session that names it, a /join of an existing name
\* creates nothing and keeps the room with its members, and no room is ever
\* removed, general and empty rooms included.
C15_RoomsOnlyGrow ==
    [][/\ rooms \subseteq rooms'
       /\ rooms' # rooms =>
             \E c \in Clients, r \in RoomNames :
                Join(c, r) /\ authenticated[c] /\ r \notin rooms
       /\ \A c \in Clients, r \in RoomNames : Join(c, r) =>
             /\ rooms' = IF authenticated[c] THEN rooms \cup {r} ELSE rooms
             /\ members' = members]_vars

\* two sessions are inside a /join of the same new room at the same time,
\* the room exists once and the first of them is already a member
C15_Witness ==
    \E c, d \in Clients :
        /\ c # d
        /\ rpc[c] = "join_leave" /\ rarg[c].r = "lobby"
        /\ rpc[d] = "join_confirm" /\ rarg[d].r = "lobby"
        /\ d \in members["lobby"]
        /\ rooms = {"general", "lobby"}

LegalStatusChanges ==
    {<<"pending", "accepted">>, <<"pending", "rejected">>, <<"accepted", "complete">>}

\* C16: the status of a transfer changes only along pending -> accepted,
\* pending -> rejected and accepted -> complete, under every interleaving of
\* /sendfile, /accept, /reject and chunk relays: no transfer leaves complete
\* or rejected, none goes from pending to complete, and a new transfer
\* starts as pending.
C16_StatusTransitions ==
    [][/\ Len(xfer') >= Len(xfer)
       /\ \A t \in 1..Len(xfer) :
             xfer'[t].Status # xfer[t].Status =>
                <<xfer[t].Status, xfer'[t].Status>> \in LegalStatusChanges
       /\ \A t \in (Len(xfer) + 1)..Len(xfer') : xfer'[t].Status = "pending"]_vars

\* one transfer has been completed and another one rejected
C16_Witness ==
    \E t, x \in 1..Len(xfer) :
        /\ xfer[t].Status = "complete"
        /\ xfer[t].ReceivedSize >= xfer[t].FileSize
        /\ xfer[x].Status = "rejected"

\* the step in which session c returns from InitiateFileTransfer
InitiateStep(c) == rpc[c] = "sendfile_init" /\ rpc'[c] # "sendfile_init"

\* the key InitiateFileTransfer computes for the /sendfile of session c
InitiateKey(c) ==
    TransferKey(username[c], username[farg[c].to], farg[c].f)

\* C17: initiating a transfer whose key has a pending entry creates no
\* second entry: the registry and the number of transfers are unchanged,
\* the existing transfer gets the new declared size and a new start time,
\* is still pending with its bytes-relayed count unchanged, and every other
\* transfer is untouched.
C17_ReRequestRefreshes ==
    [][\A c \in Clients :
          (/\ InitiateStep(c)
           /\ InitiateKey(c) \in DOMAIN active
           /\ xfer[active[InitiateKey(c)]].Status = "pending") =>
              /\ active' = active
              /\ Len(xfer') = Len(xfer)
              /\ xfer'[active[InitiateKey(c)]] =
                    [xfer[active[InitiateKey(c)]] EXCEPT
                        !.FileSize = farg[c].n, !.StartTime = clock']
              /\ clock' > xfer[active[InitiateKey(c)]].StartTime
              /\ xfer'[active[InitiateKey(c)]].Status = "pending"
              /\ xfer'[active[InitiateKey(c)]].ReceivedSize
                    = xfer[active[InitiateKey(c)]].ReceivedSize
              /\ \A t \in 1..Len(xfer) :
                    t # active[InitiateKey(c)] => xfer'[t] = xfer[t]]_vars

\* the one pending transfer has been requested a second time, with a size
\* that differs from the first request
C17_Witness ==
    /\ clock = 2
    /\ Len(xfer) = 1
    /\ Cardinality(DOMAIN active) = 1
    /\ xfer[1].Status = "pending"
    /\ xfer[1].StartTime = 2
    /\ xfer[1].FileSize = 2
    /\ wire[1] # <<>>

\* how many messages of type ty the last step wrote to session d
WrittenOfType(d, ty) ==
    Cardinality({i \in 1..Len(wire'[d]) : wire'[d][i].Type = ty})

\* the pending transfers addressed to c whose sender is named su
PendingNamed(c, su) ==
    {t \in Registry : /\ xfer[t].Receiver = c
                      /\ username[xfer[t].Sender] = su
                      /\ xfer[t].Status = "pending"}

\* the step in which AcceptFileTransfer has written its notices
AcceptNotified(c) == rpc[c] = "accept_notify" /\ rpc'[c] = "read"

\* C18: /accept su by an authenticated session c: if the registry holds a
\* pending transfer with receiver c and sender username su, exactly one such
\* transfer becomes accepted, nothing else changes, and its sender is then
\* sent one file-accepted envelope; if there is none, c is sent "No pending
\* file transfer from su" and no transfer changes.
C18_AcceptOnePending ==
    [][/\ \A c \in Clients, su \in Usernames :
             (Accept(c, su) /\ authenticated[c]) =>
                 IF PendingNamed(c, su) # {}
                 THEN /\ \E t \in PendingNamed(c, su) :
                            /\ xfer' = [xfer EXCEPT ![t].Status = "accepted"]
                            /\ farg'[c].t = t
                      /\ active' = active
                      /\ rpc'[c] = "accept_notify"
                 ELSE /\ wire' = directSend(c, NoPendingMsg(su))
                      /\ xfer' = xfer
                      /\ active' = active
       /\ \A c \in Clients : AcceptNotified(c) =>
             /\ xfer[farg[c].t].Receiver = c
             /\ xfer[farg[c].t].Status \in {"accepted", "complete"}
             /\ WrittenOfType(xfer[farg[c].t].Sender, "file-accepted") = 1
             /\ \A d \in Clients \ {xfer[farg[c].t].Sender} :
                   WrittenOfType(d, "file-accepted") = 0
             /\ UNCHANGED <<xfer, active>>]_vars

\* of two pending transfers of one sender to one receiver, one has just been
\* accepted and the other is still pending
C18_Witness ==
    \E t, x \in Registry :
        /\ t # x
        /\ xfer[t].Sender = xfer[x].Sender
        /\ xfer[t].Receiver = xfer[x].Receiver
        /\ xfer[t].Sender # xfer[t].Receiver
        /\ xfer[t].Status = "accepted"
        /\ xfer[x].Status = "pending"
        /\ wire[xfer[t].Sender] = <<FileAcceptedMsg(t)>>

\* the step in which ProcessFileTransfer has looked for the transfer
ChunkLookedUp(c) == rpc[c] = "chunk_find" /\ rpc'[c] # "chunk_find"

\* C20: a file-chunk line from a session that has no accepted transfer with
\* itself as sender and that file name is dropped: nothing is forwarded to
\* any session, no transfer and no registry entry changes, and the sender is
\* sent the notice that no accepted transfer exists.
C20_ChunkWithoutTransferDropped ==
    [][\A c \in Clients :
          (/\ ChunkLookedUp(c)
           /\ \A t \in Registry :
                 ~(/\ xfer[t].Sender = c
                   /\ xfer[t].FileName = farg[c].f
                   /\ xfer[t].Status = "accepted")) =>
              /\ wire' = directSend(c, NoActiveMsg)
              /\ xfer' = xfer
              /\ active' = active
              /\ rpc'[c] = "read"]_vars

\* a chunk of a file whose transfer is still pending has just been refused
C20_Witness ==
    \E c \in Clients, t \in Registry :
        /\ xfer[t].Sender = c
        /\ xfer[t].Status = "pending"
        /\ xfer[t].ReceivedSize = 0
        /\ wire[c] = <<NoActiveMsg>>
        /\ \A d \in Clients \ {c} : wire[d] = <<>>

\* the step in which RejectFileTransfer returns from RemoveTransfer
RejectCleaned(c) == rpc[c] = "reject_remove" /\ rpc'[c] = "read"

\* C19: /reject su of a pending transfer sets it to rejected and sends its
\* sender one file-rejected envelope; when the command has finished the
\* transfer has no entry in the registry; a rejected transfer never changes
\* again, and a /reject su that finds nothing pending yields the "No pending
\* file transfer" notice and changes nothing.
C19_RejectRemoves ==
    [][/\ \A c \in Clients, su \in Usernames :
             (Reject(c, su) /\ authenticated[c]) =>
                 IF PendingNamed(c, su) # {}
                 THEN \E t \in PendingNamed(c, su) :
                         /\ xfer' = [xfer EXCEPT ![t].Status = "rejected"]
                         /\ WrittenOfType(xfer[t].Sender, "file-rejected") = 1
                         /\ \A d \in Clients \ {xfer[t].Sender} :
                               WrittenOfType(d, "file-rejected") = 0
                 ELSE /\ wire' = directSend(c, NoPendingMsg(su))
                      /\ xfer' = xfer
                      /\ active' = active
       /\ \A c \in Clients : RejectCleaned(c) =>
             \A k \in DOMAIN active' : active'[k] # farg[c].t
       /\ \A t \in 1..Len(xfer) :
             xfer[t].Status = "rejected" => xfer'[t] = xfer[t]]_vars

\* session c sends a chat line or one of /join, /rooms, /users, /sendfile,
\* /accept, /reject
Command(c) ==
    \/ Chat(c)
    \/ \E r \in RoomNames : Join(c, r)
    \/ Rooms(c)
    \/ Users(c)
    \/ \E u \in Usernames, f \in FileNames, n \in FileSizes : SendFile(c, u, f, n)
    \/ \E u \in Usernames : Accept(c, u)
    \/ \E u \in Usernames : Reject(c, u)

LoginRequired ==
    {LoginFirst, ServerText("You must log in first with /login username password")}

\* C14: a chat line or any of /join, /rooms, /users, /sendfile, /accept,
\* /reject from an unauthenticated session writes one login-required notice
\* to that session and nothing to anyone else, hands nothing to the
\* dispatcher, enqueues nothing, and leaves the room table, every member
\* set and the transfer table unchanged; the command is over in that step.
C14_AnonymousChangesNothing ==
    [][\A c \in Clients : (~authenticated[c] /\ Command(c)) =>
          /\ \E m \in LoginRequired : wire' = directSend(c, m)
          /\ rpc'[c] = "read"
          /\ UNCHANGED <<rooms, members, xfer, active, disp, send, clients>>]_vars

\* the session that never logged in has just been refused while a second
\* room, its member and a pending transfer exist
C14_Witness ==
    \E c \in Clients :
        /\ ~authenticated[c]
        /\ c \in clients
        /\ wire[c] = <<LoginFirst>>
        /\ members["lobby"] # {}
        /\ \E t \in Registry : xfer[t].Status = "pending"

\* the steps of ProcessFileTransfer after the relay: the byte count, the
\* completion with its two notices, the removal
ChunkCounted(c) == rpc[c] = "chunk_update" /\ rpc'[c] # "chunk_update"

ChunkCompleted(c) == rpc[c] = "chunk_complete" /\ rpc'[c] = "chunk_remove"

ChunkCleaned(c) == rpc[c] = "chunk_remove" /\ rpc'[c] = "read"

\* the success notice ProcessFileTransfer writes to the sender c of transfer t
SuccessMsg(c, t) ==
    ServerText("File " \o xfer[t].FileName \o " transferred successfully to "
               \o username[xfer[t].Receiver])

\* how many times the last step wrote message m to session d
TimesWritten(d, m) == Cardinality({i \in 1..Len(wire'[d]) : wire'[d][i] = m})

\* C21: when the bytes relayed for an accepted transfer reach its declared
\* size, or the chunk is flagged last, the transfer is marked complete, its
\* sender is sent the success notice once and its receiver one file-complete
\* envelope, no other step writes a file-complete envelope or changes a
\* complete transfer, and when the relay returns the transfer has no entry
\* in the registry.
C21_CompleteOnceAndRemoved ==
    [][/\ \A c \in Clients : ChunkCounted(c) =>
             ((\/ xfer'[farg[c].t].ReceivedSize >= xfer'[farg[c].t].FileSize
               \/ farg[c].last) => rpc'[c] = "chunk_complete")
       /\ \A c \in Clients : ChunkCompleted(c) =>
             /\ xfer[farg[c].t].Status = "accepted"
             /\ xfer' = [xfer EXCEPT ![farg[c].t].Status = "complete"]
             /\ TimesWritten(c, SuccessMsg(c, farg[c].t)) = 1
             /\ WrittenOfType(xfer[farg[c].t].Receiver, "file-complete") = 1
       /\ \A d \in Clients : WrittenOfType(d, "file-complete") > 0 =>
             \E c \in Clients :
                ChunkCompleted(c) /\ d = xfer[farg[c].t].Receiver
       /\ \A t \in 1..Len(xfer) :
             xfer[t].Status = "complete" => xfer'[t] = xfer[t]
       /\ \A c \in Clients : ChunkCleaned(c) =>
             \A k \in DOMAIN active' : active'[k] # farg[c].t]_vars

\* the positions of the history es that hold the type ty
Positions(es, ty) == {i \in 1..Len(es) : es[i] = ty}

\* in the history es some ty comes before every tz
Precedes(es, ty, tz) ==
    \A j \in Positions(es, tz) : \E i \in Positions(es, ty) : i < j

\* the step in which ProcessFileTransfer relays a chunk of transfer t for c
Relayed(c, t) ==
    /\ rpc[c] = "chunk_find"
    /\ rpc'[c] = "chunk_update"
    /\ farg'[c].t = t

\* C22: the events of every transfer are ordered: the file-request is
\* written to the receiver before file-accepted is written to the sender;
\* a chunk is relayed only for a transfer its receiver has accepted, to
\* that receiver and no other session, carrying the bytes of the line being
\* processed; file-complete comes after a relayed chunk and no chunk is
\* relayed after it.
C22_TransferEventOrder ==
    [][/\ \A t \in 1..Len(events') :
             /\ Precedes(events'[t], "file-request", "file-accepted")
             /\ Precedes(events'[t], "file-chunk", "file-complete")
             /\ \A i \in Positions(events'[t], "file-complete") :
                   \A j \in Positions(events'[t], "file-chunk") : j < i
       /\ \A c \in Clients, t \in 1..Len(xfer) : Relayed(c, t) =>
             /\ xfer[t].Status = "accepted"
             /\ xfer[t].Sender = c
             /\ wire' = directSend(xfer[t].Receiver,
                                   FileChunkMsg(c, xfer[t].FileName, farg[c].d))
       /\ \A d \in Clients : WrittenOfType(d, "file-chunk") > 0 =>
             \E c \in Clients, t \in 1..Len(xfer) : Relayed(c, t)]_vars

\* the /sendfile lines that reach the size test
SendFileLines == {parts \in Lines : parts[1] = "/sendfile" /\ Len(parts) >= 4}

\* the size tokens that are decimal integers
Numerals == {"-1", "0", "1", "2"}

\* no registered session is authenticated under the name target
NotOnline(target) ==
    \A d \in clients : ~(username[d] = target /\ authenticated[d])

\* C23: a /sendfile of an authenticated session that fails, because its
\* size token is no integer, because no authenticated session has the
\* target username, or because the size is not positive or the file name
\* empty, writes one notice to the issuing session and nothing to any other
\* session, and creates or changes no transfer and no registry entry.
C23_FailedSendFileChangesNothing ==
    [][/\ \A c \in Clients, parts \in SendFileLines :
             (/\ rpc[c] = "read"
              /\ authenticated[c]
              /\ parts[4] \notin Numerals \/ NotOnline(parts[2])
              /\ handleCommand(c, parts)) =>
                 /\ \E text \in {"Invalid file size", "User not found or not online"} :
                       wire' = directSend(c, ServerText(text))
                 /\ rpc'[c] = "read"
                 /\ UNCHANGED <<xfer, active, events>>
       /\ \A c \in Clients :
             (InitiateStep(c) /\ (farg[c].n <= 0 \/ farg[c].f = "")) =>
                 /\ wire' = directSend(c, ServerText("Error creating file transfer"))
                 /\ rpc'[c] = "read"
                 /\ UNCHANGED <<xfer, active, events>>]_vars

\* a /sendfile with size 0 has just been refused while the transfer of an
\* earlier /sendfile is pending under the same key, with its size unchanged
C23_Witness ==
    /\ wire[1] = <<ServerText("Error creating file transfer")>>
    /\ \A d \in Clients \ {1} : wire[d] = <<>>
    /\ TransferKey("alice", "bob", "f") \in DOMAIN active
    /\ Len(xfer) = 1
    /\ xfer[1].Status = "pending"
    /\ xfer[1].FileSize = 1

\* the numbers of tokens of a well-formed line of each command, as the
\* usage notices of handleCommand give them; /accept also stands alone
Arity(cmd) ==
    CASE cmd = "/login" -> {3}
      [] cmd = "/join" -> {2}
      [] cmd = "/rooms" -> {1}
      [] cmd = "/users" -> {1}
      [] cmd = "/sendfile" -> {4}
      [] cmd = "/accept" -> {1, 2}
      [] cmd = "/reject" -> {2}
      [] OTHER -> {}

\* an unknown command, or a known one with a wrong number of tokens
Malformed(parts) == Len(parts) \notin Arity(parts[1])

\* C24: an unknown command or a command with a wrong number of arguments
\* writes one notice to the issuing session (for an unknown command the
\* notice names its first token) and nothing to any other session; the
\* command is over in that step, the session stays connected, and the
\* usernames, authenticated flags, current rooms, member sets, the room
\* table, the session set and the transfer table are unchanged.
C24_MalformedCommandOnlyNotice ==
    [][\A c \in Clients, parts \in Lines :
          (rpc[c] = "read" /\ Malformed(parts) /\ handleCommand(c, parts)) =>
              /\ Len(wire'[c]) = 1
              /\ SystemNotice(wire'[c][1])
              /\ Arity(parts[1]) = {} =>
                    wire'[c][1].Content = "Unknown command: " \o parts[1]
              /\ \A d \in Clients \ {c} : wire'[d] = <<>>
              /\ rpc'[c] = "read"
              /\ UNCHANGED <<username, authenticated, currentRoom, rooms,
                             members, clients, xfer, active, send, closes>>]_vars

\* C25: the outbound queue of a session changes only by an enqueue at its
\* end (by Handle, readPump or the dispatcher) or by writePump taking its
\* oldest message, which is the message writePump then writes to the
\* socket (or the one whose write fails and ends writePump): the queued
\* messages reach the socket in enqueue order, none twice and none skipped.
C25_QueueWrittenInOrder ==
    [][\A c \in Clients :
          send'[c] # send[c] =>
             \/ \E m \in {WelcomeMsg, GlobalMsg} \cup
                          {JoinConfirmMsg(r) : r \in RoomNames} :
                   send'[c] = Append(send[c], m)
             \/ /\ send[c] # <<>>
                /\ send'[c] = Tail(send[c])
                /\ wpc[c] = "run"
                /\ wire' = directSend(c, Head(send[c])) \/ wpc'[c] = "done"]_vars

\* writePump has just written the join confirmation that readPump enqueued
\* first, and the welcome that Handle enqueued after it is still waiting
C25_Witness ==
    \E c \in Clients :
        /\ wire[c] = <<JoinConfirmMsg("general")>>
        /\ send[c] = <<WelcomeMsg>>
        /\ wpc[c] = "run"

\* the steps of Server.handleMessages that write s.clients
DispatcherWrites ==
    DispatchRegister \/ DispatchUnregister \/ DispatchGlobalBroadcast

\* C26: the session set, the room table and the transfer table are accessed
\* only under their mutex: in no reachable state can one goroutine read or
\* write one of these maps outside its mutex while another goroutine
\* writes it, and the session set changes only in a step of the dispatcher.
C26_TablesOnlyUnderLock ==
    [][/\ ~MapRace
       /\ clients' # clients => DispatcherWrites]_vars

\* the steps that write to sockets between Lock and Unlock: Room.AddClient,
\* Room.RemoveClient and Room.Broadcast call directSend under r.mutex, and
\* the room branch of handleMessages calls Room.Broadcast under s.mutex
InCriticalSection ==
    \/ DispatchRoomBroadcast
    \/ \E c \in Clients : LoginAdd(c) \/ JoinLeave(c) \/ JoinAdd(c)

\* C27: no goroutine writes to a socket or does a blocking channel send
\* while it holds the server lock, a room lock or the transfer lock: a step
\* that runs inside a critical section writes to no session.
C27_NoBlockingUnderLock ==
    [][InCriticalSection => wire' = Silent]_vars

\* C28: a room chat message published with room name r is written only to
\* authenticated sessions whose current room is r when it is delivered.
C28_ChatOnlyToCurrentRoom ==
    [][DispatchRoomBroadcast =>
          \A d \in Clients : wire'[d] # <<>> =>
             /\ authenticated[d]
             /\ currentRoom[d] = disp.msg.RoomName]_vars

\* the step in which the /join of session c ends
JoinCompleted(c) == rpc[c] = "join_confirm" /\ rpc'[c] = "read"

\* C29: when an authenticated session has completed /join r, room r
\* exists, the session is a member of r and of no other room and its
\* currentRoom is r; while the /join runs the session may be in neither
\* room but is never a member of the room it leaves and of another room.
C29_JoinMovesSession ==
    [][\A c \in Clients :
          /\ JoinCompleted(c) =>
                /\ rarg[c].r \in rooms'
                /\ {r \in RoomNames : c \in members'[r]} = {rarg[c].r}
                /\ currentRoom'[c] = rarg[c].r
          /\ rpc'[c] \in {"join_leave", "join_add", "join_confirm"} =>
                Cardinality({r \in RoomNames : c \in members'[r]}) <= 1]_vars

\* C30: under fair scheduling, every session whose reader has exited is
\* eventually out of the session set with its outbound queue closed, its
\* unregister request taken by the dispatcher, and its writePump finished
\* (unless the process has died in between).
C30_ExitedSessionIsReleased ==
    \A c \in Live :
        (rpc[c] = "unreg") ~>
            (\/ panicked
             \/ /\ rpc[c] = "done"
                /\ c \notin clients
                /\ closed(c)
                /\ wpc[c] = "done")

\* the sum of the lengths of the chunks cs
SumLen(cs) ==
    LET F[i \in 0..Len(cs)] == IF i = 0 THEN 0 ELSE F[i - 1] + Len(cs[i])
    IN F[Len(cs)]

\* the length of the chunk of transfer t that ProcessFileTransfer has handed
\* to directSend and not yet added to ReceivedSize
InFlight(t) ==
    IF rpc[xfer[t].Sender] = "chunk_update" /\ farg[xfer[t].Sender].t = t
    THEN Len(farg[xfer[t].Sender].d) ELSE 0

\* C31: while a transfer is accepted, its ReceivedSize (with the chunk being
\* relayed right now) is the sum of the lengths of the chunks forwarded to
\* its receiver; every forward is one file-chunk message with the data of
\* the line, and ReceivedSize never decreases.
C31_CountIsBytesForwarded ==
    [][\A t \in 1..Len(xfer') :
          /\ xfer'[t].Status = "accepted" =>
                xfer'[t].ReceivedSize + InFlight(t)' = SumLen(relayed'[t])
          /\ t <= Len(xfer) =>
                /\ xfer'[t].ReceivedSize >= xfer[t].ReceivedSize
                /\ relayed'[t] # relayed[t] =>
                      /\ relayed'[t] = Append(relayed[t], farg[xfer[t].Sender].d)
                      /\ \A d \in Clients :
                            wire'[d] = IF d = xfer[t].Receiver
                                       THEN <<FileChunkMsg(xfer[t].Sender,
                                                           xfer[t].FileName,
                                                           farg[xfer[t].Sender].d)>>
                                       ELSE <<>>]_vars

\* the triple of the transfer t: its parties' usernames and its file name
Triple(t) ==
    <<username[xfer[t].Sender], username[xfer[t].Receiver], xfer[t].FileName>>

\* C32: no two entries of the registry have the same triple, and a return
\* from InitiateFileTransfer leaves every entry of another triple in the
\* registry under its key, with its transfer unchanged.
C32_OneEntryPerTriple ==
    [][/\ \A t1, t2 \in Registry' : Triple(t1)' = Triple(t2)' => t1 = t2
       /\ \A c \in Clients :
             InitiateStep(c) =>
                \A k \in DOMAIN active :
                    Triple(active[k]) #
                        <<username[c], username[farg[c].to], farg[c].f>> =>
                        /\ k \in DOMAIN active'
                        /\ active'[k] = active[k]
                        /\ xfer'[active[k]] = xfer[active[k]]]_vars

\* the step executes a send statement on the channel c.send: the welcome
\* of Handle, the /join confirmation, or the global branch of the dispatcher
\* (Room.Broadcast, AddClient and RemoveClient write with directSend)
QueueSend(c) ==
    \/ Welcome(c)
    \/ JoinConfirm(c)
    \/ DispatchGlobalBroadcast /\ c \in clients /\ authenticated[c]

\* C33: no step sends on the outbound queue of a session after the queue
\* has been closed.
C33_NoSendOnClosedQueue ==
    [][\A c \in Clients : closed(c) => ~QueueSend(c)]_vars

\* C34: a transfer becomes complete only in a step before which its own
\* ReceivedSize has reached its own FileSize.
C34_CompleteOnlyWhenFull ==
    [][\A t \in 1..Len(xfer) :
          xfer[t].Status # "complete" /\ xfer'[t].Status = "complete" =>
              xfer[t].ReceivedSize >= xfer[t].FileSize]_vars

\* the key RemoveTransfer computes for the transfer t
KeyOf(t) ==
    TransferKey(username[xfer[t].Sender], username[xfer[t].Receiver],
                xfer[t].FileName)

\* the step in which session c returns from RemoveTransfer
RemoveStep(c) ==
    rpc[c] \in {"reject_remove", "chunk_remove"} /\ rpc'[c] = "read"

\* every key of activeTransfers is the key of the transfer it holds
StoredUnderKey == \A k \in DOMAIN active : k = KeyOf(active[k])

\* C35: every entry of the registry is stored under the key of its
\* parties' current usernames and its file name, and a return from
\* RemoveTransfer leaves the registry without the transfer it was called
\* with.
C35_StoredUnderCurrentKey ==
    [][/\ StoredUnderKey'
       /\ \A c \in Clients :
             RemoveStep(c) => farg[c].t \notin Registry']_vars

\* C36: a transfer that is in the registry with status accepted is still
\* there after every step, accepted or complete, with its declared size and
\* without any loss in its ReceivedSize.
C36_AcceptedStaysUntilComplete ==
    [][\A t \in Registry :
          xfer[t].Status = "accepted" =>
              /\ t \in Registry'
              /\ xfer'[t].Status \in {"accepted", "complete"}
              /\ xfer'[t].FileSize = xfer[t].FileSize
              /\ xfer'[t].ReceivedSize >= xfer[t].ReceivedSize]_vars

\* the live sessions authenticated under the username u
LoggedInAs(u) ==
    {c \in clients : authenticated[c] /\ username[c] = u /\ ConnOpen(c)}

\* C37: at most one live session is authenticated under a username, so the
\* recipient lookup of /sendfile has at most one session to return.
C37_OneSessionPerUsername ==
    \A u \in Usernames :
        /\ Cardinality(LoggedInAs(u)) <= 1
        /\ Cardinality(Recipients(u)) <= 1

\* the goroutine g is waiting in l.Lock()
Waits(g, l) == todo[g] # <<>> /\ Head(todo[g]) = Lock(l)

\* the order of the mutexes: Server.mutex, then a Room.mutex, then
\* transferMutex
Rank(l) == IF l = "mutex" THEN 0 ELSE IF l = "transferMutex" THEN 2 ELSE 1

\* no goroutine requests a mutex that comes before one it holds
LockOrdered ==
    \A g \in Goroutines, l \in Mutexes, h \in Mutexes :
        Waits(g, l) /\ holder[h] = g => Rank(h) <= Rank(l)

\* C38: no goroutine requests Server.mutex while it holds a Room.mutex or
\* transferMutex, nor a Room.mutex while it holds transferMutex, and every
\* goroutine waiting in Lock eventually holds the mutex (the socket writes
\* inside the critical sections return).
C38_LocksAlwaysGranted ==
    /\ []LockOrdered
    /\ \A g \in Goroutines, l \in Mutexes :
          Waits(g, l) ~> (holder[l] = g)

\* the dispatcher is inside room.Broadcast with both mutexes while a
\* readPump waits for Server.mutex and another for the room's mutex
C38_Witness ==
    /\ holder["mutex"] = Dispatcher
    /\ \E r \in RoomNames :
          /\ holder[RoomMutex(r)] = Dispatcher
          /\ \E c, d \in Live : Waits(c, "mutex") /\ Waits(d, RoomMutex(r))
====
